---- MODULE Spec2Model ----
(***************************************************************************)
(* Verification model of the pisek evaluation tools:                       *)
(*   - minibox.c: the resource-limited process supervisor (keeper process, *)
(*     the child inside the box, and the signals the keeper receives);     *)
(*   - judgelib: the buffered stream, the tokenizer and judge-token.       *)
(* Specification Spec is the supervisor; SpecToken is judge-token.         *)
(***************************************************************************)
EXTENDS Integers, Sequences, FiniteSets, TLC

(***************************************************************************)
(* Bounds of the model.                                                    *)
(***************************************************************************)
\* Largest value a clock sample (wall or CPU time, in ms) takes.
MaxTime == 3
\* Number of fatal signals (ILL, ABRT, FPE, SEGV, BUS) delivered in one run.
MaxFatal == 1

(***************************************************************************)
(* Program constants.                                                      *)
(***************************************************************************)
SIGINT == 2
SIGKILL == 9
SIGSEGV == 11
SIGTERM == 15

\* Values of -t, -w and -x (milliseconds; 0 = not set) the model runs with.
Timeouts == {0, 1}
WallTimeouts == {0, 1}
ExtraTimeouts == {0, 2}
\* Exit codes of the supervised program.
ExitCodes == {0, 1, 2}
InterruptSignals == {SIGINT, SIGTERM}
FatalSignals == {SIGSEGV}

VARIABLES
  \* ---- minibox: the keeper process
  pc,            \* position of the keeper in its code
  timeout,       \* -t, ms
  wall_timeout,  \* -w, ms
  extra_timeout, \* -x, ms
  metafile,      \* TRUE when the FILE *metafile is non-NULL
  meta,          \* lines written to the meta-file, in order
  box_pid,       \* 0, 1 (the child's pid) or -1 (fork failed)
  timer_tick,    \* volatile flag set by signal_alarm
  interrupt,     \* volatile flag set by signal_int (signal number)
  total_ms,      \* CPU time stored by final_stats
  wall_ms,       \* wall time stored by final_stats
  msg,           \* argument of the pending err()/die()
  exit_rc,       \* argument of the pending box_exit()
  rc,            \* exit code of the keeper (-1 while it runs)
  handlers,      \* TRUE once setup_signals() has run
  alarm_armed,   \* TRUE once alarm(1) has been called
  \* ---- the child and the kernel
  child,         \* "none", "setup", "running", "zombie", "reaped"
  stat,          \* wait status of the child
  error_pipe,    \* what the child has written to the error pipe ("": nothing)
  kills,         \* targets SIGKILL has been sent to: "pgrp", "pid"
  wall,          \* last sample of the wall clock
  cpu,           \* last sample of the child's CPU time
  \* ---- history
  reaped_by,     \* "none", "keeper" (main loop) or "box_exit"
  blocked_sig,   \* signals delivered while blocked in wait4, not yet checked
  nfatal,        \* number of fatal signals delivered so far
  \* ---- judge-token and judge-shuffle
  jpc,           \* position of the judge in main(), "done" once it has exited
  opts,          \* the option flags of the judge
  t1, t2,        \* the tokenizers of the contestant's and the correct output
  jrc,           \* exit code of the judge (0 while it runs)
  jmsg,          \* message of the reject() or die() that ended the run
  \* ---- judge-shuffle
  s1, s2,        \* the shufflers of the contestant's and the correct output
  jline,         \* line number printed by "Line <n> does not match"
  \* ---- minibox: the command line and the process inside the box
  args,          \* the command line: options consumed, the last one, codes seen
  cfg,           \* the option globals of minibox.c (set_cwd, fsize_limit, ...)
  printed,       \* what main() has printed on stdout: "", "usage", "version"
  inside,        \* the child in box_inside(): steps done, fds, rlimits, env
  \* ---- judgelib used directly
  io,            \* a stream of its own: how it was opened, cursors, file
  tbuf           \* a token buffer of its own: pages, counters, read cursor

boxvars == <<pc, timeout, wall_timeout, extra_timeout, metafile, meta, box_pid,
             timer_tick, interrupt, total_ms, wall_ms, msg, exit_rc, rc,
             handlers, alarm_armed, child, stat, error_pipe, kills, wall, cpu,
             reaped_by, blocked_sig, nfatal>>
shufvars == <<s1, s2, jline>>
libvars == <<io, tbuf>>
judgevars == <<jpc, opts, t1, t2, jrc, jmsg, shufvars, libvars>>
cmdvars == <<args, cfg, printed, inside>>
vars == <<boxvars, judgevars, cmdvars>>


(***************************************************************************)
(* minibox: helpers                                                        *)
(***************************************************************************)
NoStat == [kind |-> "none", n |-> 0]
NoMsg == [code |-> "", text |-> ""]
\* Steps of box_inside() that report a failure through the error pipe.
ChildErrors == {"open", "execve"}

Line(k, v) == [key |-> k, val |-> v]

\* meta_printf(): nothing is written while metafile is NULL.
meta_printf(lines) == IF metafile THEN meta \o lines ELSE meta

\* The five lines final_stats() prints for CPU time t and wall time w.
final_stats(t, w) ==
  << Line("time", t), Line("time-wall", w), Line("max-rss", 0),
     Line("csw-voluntary", 0), Line("csw-forced", 0) >>

\* Variant of CpuOver: extra_timeout counted as a grace added to the limit.
CpuOverAdditive(ms) == timeout # 0 /\ ms > timeout + extra_timeout

\* check_timeout(): the wall-clock test and the CPU-time test.
\* check_timeout() without the test of the wall clock.
WallOverSkipped(w) == FALSE

WallOver(w) == wall_timeout # 0 /\ w > wall_timeout
CpuOver(ms) == timeout # 0 /\ ms > timeout /\ ms > extra_timeout

\* Variant of Classify: the time limits tested before the exit status.
ClassifyLimitFirst(st, t, w) ==
  IF st.kind = "exit"
  THEN IF timeout # 0 /\ t > timeout THEN "TO"
       ELSE IF wall_timeout # 0 /\ w > wall_timeout THEN "TOW"
       ELSE IF st.n # 0 THEN "RE"
       ELSE "OK"
  ELSE IF st.kind = "signal" THEN "SG"
  ELSE IF st.kind = "stop" THEN "ST"
  ELSE "XX"

\* Variant of Classify: a time equal to the limit counts as an overrun.
ClassifyInclusive(st, t, w) ==
  IF st.kind = "exit"
  THEN IF st.n # 0 THEN "RE"
       ELSE IF timeout # 0 /\ t >= timeout THEN "TO"
       ELSE IF wall_timeout # 0 /\ w >= wall_timeout THEN "TOW"
       ELSE "OK"
  ELSE IF st.kind = "signal" THEN "SG"
  ELSE IF st.kind = "stop" THEN "ST"
  ELSE "XX"

\* Variant of Classify: no post-mortem test of the wall clock.
ClassifyNoWall(st, t, w) ==
  IF st.kind = "exit"
  THEN IF st.n # 0 THEN "RE"
       ELSE IF timeout # 0 /\ t > timeout THEN "TO"
       ELSE "OK"
  ELSE IF st.kind = "signal" THEN "SG"
  ELSE IF st.kind = "stop" THEN "ST"
  ELSE "XX"

\* box_keeper(): the classification of a reaped child from its wait status
\* and the times final_stats() stored.
Classify(st, t, w) ==
  IF st.kind = "exit"
  THEN IF st.n # 0 THEN "RE"
       ELSE IF timeout # 0 /\ t > timeout THEN "TO"
       ELSE IF wall_timeout # 0 /\ w > wall_timeout THEN "TOW"
       ELSE "OK"
  ELSE IF st.kind = "signal" THEN "SG"
  ELSE IF st.kind = "stop" THEN "ST"
  ELSE "XX"

\* Variant of KillBox: the process group is not killed.
KillBoxPidOnly(k) == k \cup {"pid"}

\* Variant of DieLines: the status line is missing.
DieLinesNoStatus(text) == << Line("message", text) >>

\* Variant of PipeHasError: the error pipe is not looked at.
PipeIgnored(p) == FALSE

\* Variant of AfterHandler: handlers installed with SA_RESTART.
AfterHandlerRestart(p) == p

\* box_exit(), die(): kill(-box_pid, SIGKILL); kill(box_pid, SIGKILL).
KillBox(k) == k \cup {"pgrp", "pid"}

\* die() in the keeper: meta_printf("status:XX\nmessage:%s\n", buf).
DieLines(text) == << Line("status", "XX"), Line("message", text) >>

\* box_keeper(): n > 0 after read() on the error pipe.
PipeHasError(p) == p # ""

\* Where the keeper continues after a flag-setting handler returns: the
\* handlers are installed without SA_RESTART, so a blocked wait4() of the
\* main loop fails with EINTR and the loop starts over; the wait4() of
\* box_exit() is retried on EINTR.
AfterHandler(p) ==
  IF p = "wait4" /\ child \in {"setup", "running"} THEN "loop" ELSE p

\* TRUE when the keeper sleeps in the wait4() of the main loop.
Blocked == pc = "wait4" /\ child \in {"setup", "running"}

\* err(): entered with "XX: text"; die(): entered with the message.
err(code, text) == pc' = "err" /\ msg' = [code |-> code, text |-> text]
die(text) == pc' = "die" /\ msg' = [code |-> "XX", text |-> text]

(***************************************************************************)
(* judgelib: the buffered stream (io.cc, judge.h)                          *)
(***************************************************************************)
BUFSIZE == 65536
DEFAULT_MAX_TOKEN == 33554432
EOF == "EOF"
\* The byte of value 0, which ends a C string.
NUL == "\\0"

Min(a, b) == IF a < b THEN a ELSE b

\* Op applied to the value of v, v being evaluated once.
Bind(v, Op(_)) == CHOOSE r \in {Op(x) : x \in {v}} : TRUE

\* A stream just opened by open_fd(): pos = stop = buf and end = buf + BUFSIZE
\* (cursors are offsets from buf). The page buffer of a stream that is read
\* holds the stop bytes of the file that end at file offset off; rd is the
\* most bytes one read() of the descriptor delivers (BUFSIZE are asked for).
OpenStream == [pos |-> 0, stop |-> 0, end |-> BUFSIZE, off |-> 0, rd |-> BUFSIZE]

\* Variant of refill: pos is not set back to buf.
refill_keeps_pos(s, data) ==
  LET len == Min(Min(BUFSIZE, s.rd), Len(data) - s.off)
  IN [s EXCEPT !.stop = len, !.off = s.off + len]

\* stream::refill(): read() of up to BUFSIZE bytes; pos = buf, stop = buf+len.
refill(s, data) ==
  LET len == Min(Min(BUFSIZE, s.rd), Len(data) - s.off)
  IN [s EXCEPT !.pos = 0, !.stop = len, !.off = s.off + len]

\* Variant of getc: getc_slow() leaves the cursor on the byte it returns.
getc_slow_peeks(s, data) ==
  IF s.pos < s.stop
  THEN << data[s.off - s.stop + s.pos + 1], [s EXCEPT !.pos = @ + 1] >>
  ELSE LET r == refill(s, data)
       IN IF r.stop # 0 THEN << data[r.off - r.stop + 1], r >> ELSE << EOF, r >>

\* stream::getc(): <<the byte or EOF, the stream afterwards>>.
getc(s, data) ==
  IF s.pos < s.stop
  THEN << data[s.off - s.stop + s.pos + 1], [s EXCEPT !.pos = @ + 1] >>
  ELSE LET r == refill(s, data)
       IN IF r.stop # 0
          THEN << data[r.off - r.stop + 1], [r EXCEPT !.pos = 1] >>
          ELSE << EOF, r >>

\* stream::peekc(): the byte getc() would return, left in the buffer.
peekc(s, data) ==
  IF s.pos < s.stop
  THEN << data[s.off - s.stop + s.pos + 1], s >>
  ELSE LET r == refill(s, data)
       IN IF r.stop # 0 THEN << data[r.off - r.stop + 1], r >> ELSE << EOF, r >>

\* Variant of flush: the cursor stays where it is.
flush_keeps_pos(s) == s

\* stream::flush(): what a written stream holds goes to write(); pos = buf.
flush(s) == [s EXCEPT !.pos = 0]

\* stream::putc(): the buffer is flushed when it is full, then *pos++ = c.
putc(s) ==
  LET f == IF s.pos >= s.end THEN flush(s) ELSE s
  IN [f EXCEPT !.pos = @ + 1]

\* Variant of ungetc: the byte is not given back.
ungetc_lost(s) == s

\* stream::ungetc(): assert(pos > buf), which aborts the program otherwise.
ungetc_allowed(s) == s.pos > 0

\* stream::ungetc(): pos--.
ungetc(s) == [s EXCEPT !.pos = @ - 1]

(***************************************************************************)
(* judgelib: the tokenizer (token.cc)                                      *)
(***************************************************************************)
\* Variant of is_white: the carriage return is not whitespace.
is_white_no_cr(c) == c \in {" ", "\t", "\n"}

\* Variant of is_white: the tab is not whitespace.
is_white_no_tab(c) == c \in {" ", "\r", "\n"}

is_white(c) == c \in {" ", "\t", "\r", "\n"}

\* tokenizer::init() on a stream over the file content data.
NewTokenizer(data) ==
  [data |-> data, src |-> OpenStream, maxsize |-> DEFAULT_MAX_TOKEN,
   report_lines |-> FALSE, bufsize |-> 1, token |-> << >>, toksize |-> 0,
   line |-> 1, ret |-> "none"]

\* get_token(), second loop: the byte c is stored, the buffer grows, and the
\* next byte is read until whitespace or the end of input; whitespace that
\* ended the token is given back with ungetc(), whose assertion ends the
\* program (ret "abort") when it fails.
RECURSIVE Accumulate(_, _)
Accumulate(t, c) ==
  LET size == t.toksize + 1
      tooLong == size >= t.bufsize /\ size > t.maxsize
      grown == IF size >= t.bufsize
               THEN IF t.bufsize * 2 > t.maxsize THEN t.maxsize + 1
                    ELSE t.bufsize * 2
               ELSE t.bufsize
      g == getc(t.src, t.data)
      u == [t EXCEPT !.token = Append(@, c), !.toksize = size,
                     !.bufsize = grown, !.src = g[2]]
  IN IF tooLong
     THEN [t EXCEPT !.token = Append(@, c), !.toksize = size, !.ret = "reject"]
     ELSE IF g[1] # EOF /\ ~is_white(g[1])
     THEN Accumulate(u, g[1])
     ELSE IF g[1] # EOF /\ ~ungetc_allowed(u.src)
     THEN [u EXCEPT !.ret = "abort"]
     ELSE [u EXCEPT !.src = IF g[1] # EOF THEN ungetc(@) ELSE @,
                    !.ret = "token"]

\* get_token(), first loop: whitespace is skipped, a newline is counted and,
\* with report_lines, returned as an empty token; NULL at the end of input.
RECURSIVE SkipWhite(_)
SkipWhite(t) ==
  LET g == getc(t.src, t.data)
      c == g[1]
      u == [t EXCEPT !.src = g[2]]
  IN IF c = EOF THEN [u EXCEPT !.ret = "NULL"]
     ELSE IF c = "\n"
     THEN IF t.report_lines
          THEN [u EXCEPT !.line = @ + 1, !.toksize = 0, !.token = << >>,
                         !.ret = "token"]
          ELSE SkipWhite([u EXCEPT !.line = @ + 1])
     ELSE IF is_white(c) THEN SkipWhite(u)
     ELSE Accumulate([u EXCEPT !.toksize = 0, !.token = << >>], c)

\* tokenizer::get_token(): the tokenizer afterwards; ret is "NULL", "token"
\* (the token is in token/toksize), "reject" (Token too long) or "abort".
get_token(t) == SkipWhite(t)

\* Variant of get_nl: the end of input is rejected as well.
get_nl_strict(t) ==
  LET u == get_token(t)
  IN IF u.ret = "NULL" \/ (u.token # << >> /\ u.token[1] # NUL)
     THEN [u EXCEPT !.ret = "reject"]
     ELSE u

\* tokenizer::get_nl(): tok = get_token(); if (tok && *tok) reject(...).
\* The tokenizer afterwards; ret is "reject" (Expected end of line), or what
\* get_token() has returned.
get_nl(t) ==
  LET u == get_token(t)
  IN IF u.ret = "token" /\ u.token # << >> /\ u.token[1] # NUL
     THEN [u EXCEPT !.ret = "reject"]
     ELSE u

(***************************************************************************)
(* judge-token (judge-token.cc)                                            *)
(***************************************************************************)
\* The default relative tolerance 1e-5 is 1/REL_EPS_INV.
REL_EPS_INV == 100000

\* The values of a double: a rational n/d, an infinity of sign s, a NaN, and
\* "tiny" for the default abs_eps 1e-30, a positive number below every positive
\* number that the arithmetic on the model's tokens and tolerances produces.
Num(n, d) == [k |-> "num", n |-> n, d |-> d, s |-> 0]
Inf(s) == [k |-> "inf", n |-> 0, d |-> 1, s |-> s]
NaN == [k |-> "nan", n |-> 0, d |-> 1, s |-> 0]
ABS_EPS == [k |-> "tiny", n |-> 0, d |-> 1, s |-> 0]

Abs(x) == IF x < 0 THEN -x ELSE x
Sgn(x) == IF x < 0 THEN -1 ELSE IF x > 0 THEN 1 ELSE 0

\* IEEE 754 operations of tokens_equal(): ==, <, <=, fabs, * and -.
DEq(x, y) ==
  \/ x.k = "num" /\ y.k = "num" /\ x.n * y.d = y.n * x.d
  \/ x.k = "inf" /\ y.k = "inf" /\ x.s = y.s
  \/ x.k = "tiny" /\ y.k = "tiny"
DLess(x, y) ==
  IF x.k = "nan" \/ y.k = "nan" THEN FALSE
  ELSE IF x.k = "inf" THEN x.s = -1 /\ ~(y.k = "inf" /\ y.s = -1)
  ELSE IF y.k = "inf" THEN y.s = 1
  ELSE IF x.k = "tiny" THEN y.k = "num" /\ y.n > 0
  ELSE IF y.k = "tiny" THEN x.n <= 0
  ELSE x.n * y.d < y.n * x.d
DLe(x, y) == DLess(x, y) \/ DEq(x, y)
DAbs(x) == [x EXCEPT !.n = Abs(@), !.s = Abs(@)]
DMul(x, y) ==
  IF x.k = "nan" \/ y.k = "nan" THEN NaN
  ELSE IF x.k = "inf" \/ y.k = "inf"
  THEN LET sx == IF x.k = "inf" THEN x.s ELSE Sgn(x.n)
           sy == IF y.k = "inf" THEN y.s ELSE Sgn(y.n)
       IN IF sx * sy = 0 THEN NaN ELSE Inf(sx * sy)
  ELSE Num(x.n * y.n, x.d * y.d)
DSub(x, y) ==
  IF x.k = "nan" \/ y.k = "nan" THEN NaN
  ELSE IF x.k = "inf" THEN (IF y.k = "inf" /\ y.s = x.s THEN NaN ELSE x)
  ELSE IF y.k = "inf" THEN Inf(-y.s)
  ELSE Num(x.n * y.d - y.n * x.d, x.d * y.d)

Digits == {"0", "1", "2", "3", "4", "5", "6", "7", "8", "9"}
DigitVal(c) == CHOOSE n \in 0..9 : <<"0", "1", "2", "3", "4", "5", "6", "7", "8", "9">>[n + 1] = c

\* tolower() over the letters of the model's tokens.
ToLower(c) ==
  CASE c = "A" -> "a" [] c = "N" -> "n" [] c = "I" -> "i" [] c = "F" -> "f"
    [] OTHER -> c
LowerSeq(tok) == [i \in DOMAIN tok |-> ToLower(tok[i])]

\* strtod() on the tokens of the model: an optional sign followed by decimal
\* digits, by "inf" or by "nan" (in any letter case) is converted; to_double()
\* fails when the token is not consumed to its end.
Unsigned(tok) ==
  IF tok # << >> /\ tok[1] \in {"-", "+"} THEN SubSeq(tok, 2, Len(tok)) ELSE tok
SignOf(tok) == IF tok # << >> /\ tok[1] = "-" THEN -1 ELSE 1
AllDigits(body) == Len(body) > 0 /\ \A i \in DOMAIN body : body[i] \in Digits
RECURSIVE DecVal(_)
DecVal(body) ==
  IF body = << >> THEN 0
  ELSE 10 * DecVal(SubSeq(body, 1, Len(body) - 1)) + DigitVal(body[Len(body)])
to_double_ok(tok) ==
  LET body == Unsigned(tok)
  IN \/ AllDigits(body)
     \/ LowerSeq(body) \in {<< "i", "n", "f" >>, << "n", "a", "n" >>}
to_double_val(tok) ==
  LET body == Unsigned(tok)
  IN IF AllDigits(body) THEN Num(SignOf(tok) * DecVal(body), 1)
     ELSE IF LowerSeq(body) = << "i", "n", "f" >> THEN Inf(SignOf(tok))
     ELSE NaN

\* toupper() over the bytes of the model, for strcasecmp().
ToUpper(c) ==
  CASE c = "a" -> "A" [] c = "n" -> "N" [] c = "i" -> "I" [] c = "f" -> "F"
    [] OTHER -> c
UpperSeq(tok) == [i \in DOMAIN tok |-> ToUpper(tok[i])]

\* Variant of tokens_equal: without the test x1 == x2.
tokens_equal_no_shortcut(o, a, b) ==
  IF o.real_mode /\ to_double_ok(a) /\ to_double_ok(b)
  THEN LET x1 == to_double_val(a)
           x2 == to_double_val(b)
           e == DAbs(DMul(x2, o.rel_eps))
           eps == IF DLess(e, ABS_EPS) THEN ABS_EPS ELSE e
       IN DLe(DAbs(DSub(x1, x2)), eps)
  ELSE IF o.ignore_case THEN UpperSeq(a) = UpperSeq(b) ELSE a = b

\* tokens_equal().
tokens_equal(o, a, b) ==
  IF o.real_mode /\ to_double_ok(a) /\ to_double_ok(b)
  THEN LET x1 == to_double_val(a)
           x2 == to_double_val(b)
           e == DAbs(DMul(x2, o.rel_eps))
           eps == IF DLess(e, ABS_EPS) THEN ABS_EPS ELSE e
       IN DEq(x1, x2) \/ DLe(DAbs(DSub(x1, x2)), eps)
  ELSE IF o.ignore_case THEN UpperSeq(a) = UpperSeq(b) ELSE a = b

\* Variant of trailing_nl: report_lines stays set.
trailing_nl_keep_lines(o, t) ==
  IF t.toksize # 0 \/ ~o.ignore_trailing_nl
  THEN << FALSE, t >>
  ELSE LET u == get_token(t)
       IN << u.ret = "NULL", u >>

\* trailing_nl(): <<result, the tokenizer afterwards>>.
trailing_nl(o, t) ==
  IF t.toksize # 0 \/ ~o.ignore_trailing_nl
  THEN << FALSE, t >>
  ELSE LET u == get_token([t EXCEPT !.report_lines = FALSE])
       IN << u.ret = "NULL", u >>

\* Bytes of the input files and their longest length.
Bytes == {"1", " ", "\t", "\n"}
MaxLen == 3
RECURSIVE SeqsUpTo(_, _)
SeqsUpTo(S, n) ==
  IF n = 0 THEN {<< >>}
  ELSE LET R == SeqsUpTo(S, n - 1)
       IN R \cup {Append(r, x) : r \in {q \in R : Len(q) = n - 1}, x \in S}
Files == SeqsUpTo(Bytes, MaxLen)
\* Option sets the judge is run with: <<-n, -t, -i, -r>>.
OptionSets == {[ignore_nl |-> n, ignore_trailing_nl |-> t, ignore_case |-> FALSE,
                real_mode |-> FALSE, rel_eps |-> Num(1, REL_EPS_INV)] :
               n \in BOOLEAN, t \in BOOLEAN}

\* A shuffler before read(): no token buffer, no lines.
NoShuffler ==
  [tb |-> [toks |-> << >>, num_tokens |-> 0, num_lines |-> 0],
   lines |-> << >>, num_lines |-> 0]
ShuffleIdle == s1 = NoShuffler /\ s2 = NoShuffler /\ jline = 0

JudgeIdle ==
  /\ jpc = "idle" /\ opts = [ignore_nl |-> FALSE, ignore_trailing_nl |-> FALSE,
                             ignore_case |-> FALSE, real_mode |-> FALSE,
                             rel_eps |-> Num(1, REL_EPS_INV)]
  /\ t1 = NewTokenizer(<< >>) /\ t2 = NewTokenizer(<< >>)
  /\ jrc = 0 /\ jmsg = "" /\ ShuffleIdle

\* main() up to the loop: the options are parsed, both files are opened,
\* report_lines is set unless -n was given.
JudgeInit ==
  /\ jpc = "loop"
  /\ opts \in OptionSets
  /\ \E f1 \in Files, f2 \in Files :
       /\ t1 = [NewTokenizer(f1) EXCEPT !.report_lines = ~opts.ignore_nl]
       /\ t2 = [NewTokenizer(f2) EXCEPT !.report_lines = ~opts.ignore_nl]
  /\ jrc = 0 /\ jmsg = "" /\ ShuffleIdle

\* Inputs of the runs in real mode: the tokens, the files made of them, the
\* values of -e and the option sets <<-n, -t, -i, -r, -e>>.
RealTokens ==
  { << "0" >>, << "1" >>, << "2" >>, << "-", "1" >>, << "1", "a" >>,
    << "a" >>, << "A" >>, << "i", "n", "f" >>, << "-", "i", "n", "f" >>,
    << "n", "a", "n" >>, << "N", "A", "N" >> }
RealFiles == RealTokens \cup {<< >>, << "1", "\n", "n", "a", "n" >>}
RelEpsOptions == {Num(1, REL_EPS_INV), Num(1, 2), Num(-1, 2)}
RealOptionSets ==
  {[ignore_nl |-> n, ignore_trailing_nl |-> t, ignore_case |-> i,
    real_mode |-> r, rel_eps |-> e] :
   n \in BOOLEAN, t \in BOOLEAN, i \in BOOLEAN, r \in BOOLEAN,
   e \in RelEpsOptions}

\* main() up to the loop, for the runs in real mode.
JudgeInitReal ==
  /\ jpc = "loop"
  /\ opts \in RealOptionSets
  /\ \E f1 \in RealFiles, f2 \in RealFiles :
       /\ t1 = [NewTokenizer(f1) EXCEPT !.report_lines = ~opts.ignore_nl]
       /\ t2 = [NewTokenizer(f2) EXCEPT !.report_lines = ~opts.ignore_nl]
  /\ jrc = 0 /\ jmsg = "" /\ ShuffleIdle

JudgeExit(code, m) == jpc' = "done" /\ jrc' = code /\ jmsg' = m

\* Loop: both tokenizers are at the end of input: break; return 42.
JudgeBothEnd ==
  /\ jpc = "loop"
  /\ LET a == get_token(t1)
         b == get_token(t2)
     IN /\ a.ret = "NULL" /\ b.ret = "NULL"
        /\ t1' = a /\ t2' = b
        /\ JudgeExit(42, "")
  /\ UNCHANGED <<opts, shufvars, boxvars, cmdvars, libvars>>

\* Loop: the contestant's output has ended and the correct one has not.
JudgeFirstEnds ==
  /\ jpc = "loop"
  /\ LET a == get_token(t1)
         b == get_token(t2)
         r == trailing_nl(opts, b)
     IN /\ a.ret = "NULL" /\ b.ret = "token"
        /\ t1' = a /\ t2' = r[2]
        /\ IF r[1] THEN JudgeExit(42, "") ELSE JudgeExit(43, "Ends too early")
  /\ UNCHANGED <<opts, shufvars, boxvars, cmdvars, libvars>>

\* Loop: the correct output has ended and the contestant's has not.
JudgeSecondEnds ==
  /\ jpc = "loop"
  /\ LET a == get_token(t1)
         b == get_token(t2)
         r == trailing_nl(opts, a)
     IN /\ a.ret = "token" /\ b.ret = "NULL"
        /\ t1' = r[2] /\ t2' = b
        /\ IF r[1] THEN JudgeExit(42, "") ELSE JudgeExit(43, "Garbage at the end")
  /\ UNCHANGED <<opts, shufvars, boxvars, cmdvars, libvars>>

\* Loop: both have a token: they are compared.
JudgeCompare ==
  /\ jpc = "loop"
  /\ LET a == get_token(t1)
         b == get_token(t2)
     IN /\ a.ret = "token" /\ b.ret = "token"
        /\ t1' = a /\ t2' = b
        /\ IF tokens_equal(opts, a.token, b.token)
           THEN UNCHANGED <<jpc, jrc, jmsg>>
           ELSE JudgeExit(43, "Found, expected")
  /\ UNCHANGED <<opts, shufvars, boxvars, cmdvars, libvars>>

(***************************************************************************)
(* judge-shuffle (judge-shuffle.cc)                                        *)
(***************************************************************************)
\* The code of a byte, for the bytes of the model.
Ord(c) ==
  CASE c = "\t" -> 9 [] c = "\n" -> 10 [] c = "\r" -> 13 [] c = " " -> 32
    [] c = "+" -> 43 [] c = "-" -> 45 [] c = "0" -> 48 [] c = "1" -> 49
    [] c = "2" -> 50 [] c = "A" -> 65 [] c = "F" -> 70 [] c = "I" -> 73
    [] c = "N" -> 78 [] c = "a" -> 97 [] c = "f" -> 102 [] c = "i" -> 105
    [] c = "n" -> 110

\* A uint hash is the pair <<high 16 bits, low 16 bits>>.
HASH_MUL == 24593
HashInit == << 0, 1 >>
HashZero == << 0, 0 >>
\* hash = (hash * 0x6011) + x, modulo 2^32.
HashStep(h0, x) ==
  Bind(h0, LAMBDA h :
    Bind(h[2] * HASH_MUL + x[2], LAMBDA lo :
      << (h[1] * HASH_MUL + x[1] + lo \div 65536) % 65536, lo % 65536 >>))
HashLess(a, b) == a[1] < b[1] \/ (a[1] = b[1] /\ a[2] < b[2])

\* tokbuf::add_token(): the token is stored after the others; an empty token
\* ends a line.
add_token(tb, token) ==
  [toks |-> Append(tb.toks, token), num_tokens |-> tb.num_tokens + 1,
   num_lines |-> tb.num_lines + (IF token = << >> THEN 1 ELSE 0)]

\* tok::compute_hash().
RECURSIVE tok_hash(_)
tok_hash(token0) ==
  Bind(token0, LAMBDA token :
    IF token = << >> THEN HashInit
    ELSE HashStep(tok_hash(SubSeq(token, 1, Len(token) - 1)),
                  << 0, Ord(token[Len(token)]) >>))

\* strcmp(): -1, 0 or 1.
RECURSIVE strcmp(_, _)
strcmp(a, b) ==
  IF a = << >> THEN (IF b = << >> THEN 0 ELSE -1)
  ELSE IF b = << >> THEN 1
  ELSE IF Ord(a[1]) < Ord(b[1]) THEN -1
  ELSE IF Ord(a[1]) > Ord(b[1]) THEN 1
  ELSE strcmp(Tail(a), Tail(b))

\* tok::compare().
tok_compare(x, y) ==
  IF HashLess(x.hash, y.hash) THEN -1
  ELSE IF HashLess(y.hash, x.hash) THEN 1
  ELSE strcmp(x.token, y.token)
tok_less(x, y) == tok_compare(x, y) < 0

\* line::compute_hash() over the tokens of a line.
RECURSIVE line_hash(_)
line_hash(toks0) ==
  Bind(toks0, LAMBDA toks :
    IF toks = << >> THEN HashInit
    ELSE HashStep(line_hash(SubSeq(toks, 1, Len(toks) - 1)),
                  toks[Len(toks)].hash))

\* line::compare(): the loop over the tokens of two lines of equal length.
RECURSIVE toks_compare(_, _)
toks_compare(a, b) ==
  IF a = << >> THEN 0
  ELSE LET c == tok_compare(a[1], b[1])
       IN IF c # 0 THEN c ELSE toks_compare(Tail(a), Tail(b))
line_compare(x, y) ==
  IF HashLess(x.hash, y.hash) THEN -1
  ELSE IF HashLess(y.hash, x.hash) THEN 1
  ELSE IF x.len < y.len THEN -1
  ELSE IF x.len > y.len THEN 1
  ELSE toks_compare(x.toks, y.toks)
line_less(x, y) == line_compare(x, y) < 0

\* sort(): the elements of s in ascending order of Less; elements that
\* compare equal keep their order.
sort(s0, Less(_, _)) ==
  Bind(s0, LAMBDA s :
    Bind([i \in DOMAIN s |->
            Cardinality({j \in DOMAIN s :
               Less(s[j], s[i]) \/ (~Less(s[i], s[j]) /\ j < i)}) + 1],
         LAMBDA rank :
           [k \in DOMAIN s |-> s[CHOOSE i \in DOMAIN s : rank[i] = k]]))

\* One round of the loop of slurp() with the token of u: st holds the token
\* buffer tb and nl, TRUE when the last stored token ended a line.
SlurpStep(o, st, u) ==
  IF u.token # << >> /\ u.token[1] # NUL
  THEN [t |-> u, nl |-> FALSE,
        tb |-> add_token(st.tb, IF o.ignore_case THEN UpperSeq(u.token)
                                ELSE u.token)]
  ELSE IF ~o.ignore_nl
  THEN IF st.nl /\ o.ignore_empty THEN [st EXCEPT !.t = u]
       ELSE [t |-> u, nl |-> TRUE, tb |-> add_token(st.tb, u.token)]
  ELSE [t |-> u, nl |-> st.nl, tb |-> add_token(st.tb, u.token)]

\* Variant of the loop of slurp: -e is not honoured.
RECURSIVE SlurpLoopKeepEmpty(_, _)
SlurpLoopKeepEmpty(o, st0) ==
  Bind(st0, LAMBDA st :
    Bind(get_token(st.t), LAMBDA u :
      IF u.ret # "token" THEN [st EXCEPT !.t = u]
      ELSE SlurpLoopKeepEmpty(o, [t |-> u, nl |-> u.token = << >>,
                                  tb |-> add_token(st.tb, u.token)])))

\* shuffler::slurp(), the loop: while (token = tizer->get_token()).
RECURSIVE SlurpLoop(_, _)
SlurpLoop(o, st0) ==
  Bind(st0, LAMBDA st :
    Bind(get_token(st.t), LAMBDA u :
      IF u.ret # "token" THEN [st EXCEPT !.t = u]
      ELSE SlurpLoop(o, SlurpStep(o, st, u))))

\* Variant of slurp: the last line is not terminated at the end of input.
slurp_no_final_nl(o, t) ==
  SlurpLoop(o, [t |-> t, tb |-> NoShuffler.tb, nl |-> TRUE])

\* shuffler::slurp(): the tokenizer afterwards and the token buffer.
slurp(o, t) ==
  Bind(SlurpLoop(o, [t |-> t, tb |-> NoShuffler.tb, nl |-> TRUE]), LAMBDA r :
    [r EXCEPT !.tb = IF ~r.nl THEN add_token(@, << >>) ELSE @])

\* A line of the vector `lines`; resize() zero-fills the entries.
LineOf(toks0, n) ==
  Bind(toks0, LAMBDA toks :
    [toks |-> toks, len |-> Len(toks), hash |-> line_hash(toks),
     orig_line |-> n])
ZeroLine == [toks |-> << >>, len |-> 0, hash |-> HashZero, orig_line |-> 0]

\* shuffler::read(), the loop over the n first tokens of the buffer: the
\* finished lines and cur, the tokens of the line under way.
RECURSIVE ReadLoop(_, _, _)
ReadLoop(o, toks, n) ==
  IF n = 0 THEN [lines |-> << >>, cur |-> << >>]
  ELSE Bind(ReadLoop(o, toks, n - 1), LAMBDA r :
         IF toks[n] # << >>
         THEN [r EXCEPT !.cur = Append(@, [token |-> toks[n],
                                           hash |-> tok_hash(toks[n])])]
         ELSE [lines |-> Append(r.lines,
                           LineOf(IF o.shuffle_words THEN sort(r.cur, tok_less)
                                  ELSE r.cur, Len(r.lines) + 1)),
               cur |-> << >>])

\* Variant of the sort of read(): the vector is left in input order.
NoSortLines(all) == all

\* The sort of read(): sort(lines.begin(), lines.end()) on the vector of
\* num_lines + 1 entries.
SortLines(all) == sort(all, line_less)

\* shuffler::read(): the tokenizer afterwards and the shuffler.
read(o, t) ==
  Bind(slurp(o, t), LAMBDA r :
    Bind(ReadLoop(o, r.tb.toks, Len(r.tb.toks)).lines, LAMBDA ls :
      [t |-> r.t,
       s |-> [tb |-> r.tb,
              lines |-> IF o.shuffle_lines THEN SortLines(Append(ls, ZeroLine))
                        ELSE Append(ls, ZeroLine),
              num_lines |-> Len(ls)]]))

\* compare(): the indices at which the two vectors differ, and the outcome:
\* "count" (the numbers of lines differ), "line" (some line differs) or "ok".
Mismatches(a, b) ==
  {i \in 1..a.num_lines : line_compare(a.lines[i], b.lines[i]) # 0}
FirstOf(S) == CHOOSE i \in S : \A j \in S : i <= j
compare(a0, b0) ==
  Bind(a0, LAMBDA a : Bind(b0, LAMBDA b :
    IF a.num_lines # b.num_lines THEN "count"
    ELSE IF Mismatches(a, b) # {} THEN "line"
    ELSE "ok"))

\* Input files of judge-shuffle: the bytes, the contestant's outputs (up to
\* MaxLen bytes, a space standing only between two words), the correct
\* outputs, and the option sets <<-e, -l, -n, -w>>.
ShufBytes == {"1", "2", " ", "\n"}
WellSpaced(f) ==
  \A i \in DOMAIN f :
    f[i] = " " => /\ 1 < i /\ i < Len(f)
                  /\ f[i - 1] \notin {" ", "\n"} /\ f[i + 1] \notin {" ", "\n"}
ShufFiles == {f \in SeqsUpTo(ShufBytes, MaxLen) : WellSpaced(f)}
ShufRefFiles ==
  { << >>, << "\n" >>, << "1" >>, << "1", "\n" >>, << "2", "\n" >>,
    << "1", " ", "2" >>, << "2", " ", "1" >>, << "1", "\n", "2" >>,
    << "2", "\n", "1" >>, << "1", "\n", "1" >>, << "1", "\n", "\n" >>,
    << "\n", "1", "\n" >> }
ShufOptionSets ==
  {[ignore_nl |-> n, ignore_empty |-> e, ignore_case |-> FALSE,
    shuffle_lines |-> l, shuffle_words |-> w] :
   n \in BOOLEAN, e \in BOOLEAN, l \in BOOLEAN, w \in BOOLEAN}

\* main() up to the first read(): the options are parsed, both files are
\* opened, report_lines is set unless -n was given.
ShuffleInit ==
  /\ jpc = "read"
  /\ opts \in ShufOptionSets
  /\ \E f1 \in ShufFiles, f2 \in ShufRefFiles :
       /\ t1 = [NewTokenizer(f1) EXCEPT !.report_lines = ~opts.ignore_nl]
       /\ t2 = [NewTokenizer(f2) EXCEPT !.report_lines = ~opts.ignore_nl]
  /\ jrc = 0 /\ jmsg = "" /\ ShuffleIdle

\* main(): s1.read(&t1); s2.read(&t2).
ShuffleRead ==
  /\ jpc = "read"
  /\ LET r1 == read(opts, t1)
         r2 == read(opts, t2)
     IN /\ t1' = r1.t /\ s1' = r1.s
        /\ t2' = r2.t /\ s2' = r2.s
  /\ jpc' = "compare"
  /\ UNCHANGED <<opts, jrc, jmsg, jline, boxvars, cmdvars, libvars>>

\* compare(): the numbers of lines differ.
ShuffleCountDiffers ==
  /\ jpc = "compare"
  /\ compare(s1, s2) = "count"
  /\ JudgeExit(43, "Output has lines, expecting")
  /\ UNCHANGED <<opts, t1, t2, s1, s2, jline, boxvars, cmdvars, libvars>>

\* compare(): the first index at which the lines differ is reported with the
\* original number of the contestant's line; sort() may leave any of the
\* lines equal to it at that index.
ShuffleLineDiffers ==
  /\ jpc = "compare"
  /\ compare(s1, s2) = "line"
  /\ LET l1 == s1.lines[FirstOf(Mismatches(s1, s2))]
     IN \E i \in 1..Len(s1.lines) :
          /\ line_compare(s1.lines[i], l1) = 0
          /\ jline' = s1.lines[i].orig_line
  /\ JudgeExit(43, "Line does not match")
  /\ UNCHANGED <<opts, t1, t2, s1, s2, boxvars, cmdvars, libvars>>

\* compare() returns and main() returns 42.
ShuffleAccept ==
  /\ jpc = "compare"
  /\ compare(s1, s2) = "ok"
  /\ JudgeExit(42, "")
  /\ UNCHANGED <<opts, t1, t2, s1, s2, jline, boxvars, cmdvars, libvars>>

(***************************************************************************)
(* A caller that reads a whole input token by token                       *)
(***************************************************************************)
\* Inputs of the tokenizer: every byte class of is_white(), two other bytes
\* and the zero byte, in files of up to MaxLen bytes, with and without
\* report_lines.
TokBytes == {"1", "2", NUL, " ", "\t", "\r", "\n"}
TokFiles == SeqsUpTo(TokBytes, MaxLen)

\* What one read() delivers: a byte, two bytes, or as much as was asked for.
ReadSizes == {1, 2, BUFSIZE}

TokenizerInit ==
  /\ jpc = "tokens"
  /\ \E f \in TokFiles, r \in BOOLEAN, n \in ReadSizes :
       t1 = [NewTokenizer(f) EXCEPT !.report_lines = r, !.src.rd = n]
  /\ t2 = NewTokenizer(<< >>)
  /\ opts = [ignore_nl |-> FALSE, ignore_trailing_nl |-> FALSE,
             ignore_case |-> FALSE, real_mode |-> FALSE,
             rel_eps |-> Num(1, REL_EPS_INV)]
  /\ jrc = 0 /\ jmsg = "" /\ ShuffleIdle

\* while (token = tizer->get_token()): a token is returned.
TokenizerNext ==
  /\ jpc = "tokens"
  /\ LET u == get_token(t1)
     IN u.ret = "token" /\ t1' = u
  /\ UNCHANGED <<jpc, opts, t2, jrc, jmsg, shufvars, boxvars, cmdvars, libvars>>

\* while (token = tizer->get_token()): NULL is returned and the loop ends.
TokenizerEnd ==
  /\ jpc = "tokens"
  /\ LET u == get_token(t1)
     IN u.ret = "NULL" /\ t1' = u
  /\ jpc' = "done"
  /\ UNCHANGED <<opts, t2, jrc, jmsg, shufvars, boxvars, cmdvars, libvars>>

\* tizer->get_nl(): it returns, or reject() prints the message and exits 43.
TokenizerGetNl ==
  /\ jpc = "tokens"
  /\ LET u == get_nl(t1)
     IN /\ t1' = u
        /\ IF u.ret = "reject"
           THEN JudgeExit(43, "Expected end of line")
           ELSE UNCHANGED <<jpc, jrc, jmsg>>
  /\ UNCHANGED <<opts, t2, shufvars, boxvars, cmdvars, libvars>>

(***************************************************************************)
(* tokenizer: the token buffer at the width of uint (token.cc, judge.h)    *)
(***************************************************************************)
\* maxsize, toksize and bufsize are of type uint: 32 bits, here a pair
\* << high 16 bits, low 16 bits >>, compared by HashLess.
UInt(n) == << n \div 65536, n % 65536 >>
UInc(x) ==
  IF x[2] + 1 < 65536 THEN << x[1], x[2] + 1 >> ELSE << (x[1] + 1) % 65536, 0 >>
UDec(x) ==
  IF x[2] > 0 THEN << x[1], x[2] - 1 >> ELSE << (x[1] + 65535) % 65536, 65535 >>
UDouble(x) ==
  << (2 * x[1] + (2 * x[2]) \div 65536) % 65536, (2 * x[2]) % 65536 >>

\* Number of bytes of a token the model stores one by one from its start.
MaxSingle == 3

\* The values of maxsize: small ones, the default, and the largest ones.
MaxSizes ==
  { UInt(0), UInt(1), UInt(2), UInt(3), UInt(4), UInt(DEFAULT_MAX_TOKEN),
    << 32767, 65535 >>, << 32768, 0 >>, << 65535, 65535 >> }

\* tokenizer::init() for a caller that then sets maxsize.
NewBuffer(m) ==
  [maxsize |-> m, bufsize |-> UInt(1), toksize |-> UInt(0), ret |-> "none"]

\* get_token(), one round of the second loop up to the next getc(): the
\* byte is stored at token[toksize], and when toksize has reached bufsize the
\* token is rejected or the buffer grows. A store outside the buffer is
\* undefined behaviour ("overrun"). realloc() with size 0 either returns
\* NULL, which xrealloc() answers with die(), or a block of no bytes.
store(t, realloc_null) ==
  LET size == UInc(t.toksize)
      doubled == UDouble(t.bufsize)
      grown == IF HashLess(t.maxsize, doubled) THEN UInc(t.maxsize) ELSE doubled
  IN IF ~HashLess(t.toksize, t.bufsize) THEN [t EXCEPT !.ret = "overrun"]
     ELSE IF HashLess(size, t.bufsize) THEN [t EXCEPT !.toksize = size, !.ret = "more"]
     ELSE IF HashLess(t.maxsize, size)
     THEN [t EXCEPT !.toksize = size, !.ret = "reject"]
     ELSE IF grown = UInt(0) /\ realloc_null
     THEN [t EXCEPT !.toksize = size, !.bufsize = grown, !.ret = "die"]
     ELSE [t EXCEPT !.toksize = size, !.bufsize = grown, !.ret = "more"]

\* get_token(), after the second loop: token[toksize] = 0.
terminate(t) ==
  IF HashLess(t.toksize, t.bufsize) THEN [t EXCEPT !.ret = "token"]
  ELSE [t EXCEPT !.ret = "overrun"]

GrowInit ==
  /\ jpc = "grow"
  /\ \E m \in MaxSizes : t1 = NewBuffer(m)
  /\ t2 = NewTokenizer(<< >>)
  /\ opts = [ignore_nl |-> FALSE, ignore_trailing_nl |-> FALSE,
             ignore_case |-> FALSE, real_mode |-> FALSE,
             rel_eps |-> Num(1, REL_EPS_INV)]
  /\ jrc = 0 /\ jmsg = "" /\ ShuffleIdle

growvars == <<jpc, opts, t2, jrc, jmsg, shufvars, boxvars, cmdvars, libvars>>

\* get_token(): the first byte of a token is stored; toksize starts at 0
\* and bufsize is what the tokens before have left.
GrowFirst ==
  /\ jpc = "grow" /\ t1.ret \in {"none", "token"}
  /\ \E n \in BOOLEAN : t1' = store([t1 EXCEPT !.toksize = UInt(0)], n)
  /\ UNCHANGED growvars

\* get_token(): the next byte is not whitespace and is stored: one of the
\* first bytes of the token, or the byte that fills the buffer.
GrowStore ==
  /\ jpc = "grow" /\ t1.ret = "more"
  /\ \/ HashLess(t1.toksize, UInt(MaxSingle))
     \/ ~HashLess(UInc(t1.toksize), t1.bufsize)
  /\ \E n \in BOOLEAN : t1' = store(t1, n)
  /\ UNCHANGED growvars

\* get_token(): the rounds that store the bytes up to the last but one of
\* the buffer: in each of them toksize < bufsize after the store, so that
\* only toksize changes.
GrowRun ==
  /\ jpc = "grow" /\ t1.ret = "more"
  /\ HashLess(UInc(t1.toksize), t1.bufsize)
  /\ t1' = [t1 EXCEPT !.toksize = UDec(t1.bufsize)]
  /\ UNCHANGED growvars

\* get_token(): whitespace or the end of input follows; the token is
\* terminated and returned.
GrowEnd ==
  /\ jpc = "grow" /\ t1.ret = "more"
  /\ t1' = terminate(t1)
  /\ UNCHANGED growvars

(***************************************************************************)
(* The judges from the start of main() (judge-token.cc, judge-shuffle.cc)  *)
(***************************************************************************)
\* Command lines: whether getopt() meets an unknown option, and the number
\* of arguments left after the options; the files that can be opened.
ArgCounts == 0..3
MainFiles == {<< >>, << "1" >>, << "2" >>, << "1", "\n" >>, << "1", "\n", "2" >>}

\* Variant of judge_die: die() leaves with the code of reject().
judge_die_reject(m) == JudgeExit(43, m)

\* die() of util.cc: exit(EXIT_JUDGE_FAILURE).
judge_die(m) == JudgeExit(44, m)

JudgeMainInit ==
  /\ jpc \in {"token_main", "shuffle_main"}
  /\ opts = [ignore_nl |-> FALSE, ignore_trailing_nl |-> FALSE,
             ignore_case |-> FALSE, real_mode |-> FALSE,
             rel_eps |-> Num(1, REL_EPS_INV)]
  /\ t1 = NewTokenizer(<< >>) /\ t2 = NewTokenizer(<< >>)
  /\ jrc = 0 /\ jmsg = "" /\ ShuffleIdle

\* judge-token main(): an unknown option or a wrong number of arguments:
\* usage() prints the help and calls exit(1).
TokenUsage ==
  /\ jpc = "token_main"
  /\ \E badopt \in BOOLEAN, nargs \in ArgCounts : badopt \/ nargs # 2
  /\ JudgeExit(1, "Usage")
  /\ UNCHANGED <<opts, t1, t2, shufvars, boxvars, cmdvars, libvars>>

\* judge-token main(): open_read() of one of the two files fails: die().
TokenOpenFails ==
  /\ jpc = "token_main"
  /\ judge_die("Unable to open for reading")
  /\ UNCHANGED <<opts, t1, t2, shufvars, boxvars, cmdvars, libvars>>

\* judge-token main() up to the loop.
TokenMain ==
  /\ jpc = "token_main"
  /\ \E o \in RealOptionSets, f1 \in MainFiles, f2 \in MainFiles :
       /\ opts' = o
       /\ t1' = [NewTokenizer(f1) EXCEPT !.report_lines = ~o.ignore_nl]
       /\ t2' = [NewTokenizer(f2) EXCEPT !.report_lines = ~o.ignore_nl]
  /\ jpc' = "loop"
  /\ UNCHANGED <<jrc, jmsg, shufvars, boxvars, cmdvars, libvars>>

\* judge-shuffle main(): usage() prints the help and calls exit(1).
ShuffleUsage ==
  /\ jpc = "shuffle_main"
  /\ \E badopt \in BOOLEAN, nargs \in ArgCounts : badopt \/ nargs # 2
  /\ JudgeExit(1, "Usage")
  /\ UNCHANGED <<opts, t1, t2, shufvars, boxvars, cmdvars, libvars>>

\* judge-shuffle main(): open_read() of one of the two files fails: die().
ShuffleOpenFails ==
  /\ jpc = "shuffle_main"
  /\ judge_die("Unable to open for reading")
  /\ UNCHANGED <<opts, t1, t2, shufvars, boxvars, cmdvars, libvars>>

\* judge-shuffle main() up to the first read().
ShuffleMain ==
  /\ jpc = "shuffle_main"
  /\ \E o \in ShufOptionSets, f1 \in MainFiles, f2 \in MainFiles :
       /\ opts' = o
       /\ t1' = [NewTokenizer(f1) EXCEPT !.report_lines = ~o.ignore_nl]
       /\ t2' = [NewTokenizer(f2) EXCEPT !.report_lines = ~o.ignore_nl]
  /\ jpc' = "read"
  /\ UNCHANGED <<jrc, jmsg, shufvars, boxvars, cmdvars, libvars>>

(***************************************************************************)
(* minibox: main() and run()                                               *)
(***************************************************************************)
\* No stream of its own is open; no token buffer of its own is in use.
NoIo == [mode |-> "none", s |-> OpenStream, data |-> << >>, flushes |-> 0]
NoTokbuf == [state |-> "none"]

\* The option globals before main() runs.
DefaultCfg ==
  [set_cwd |-> << >>, fsize_limit |-> 0, pass_environ |-> 0, rules |-> << >>,
   stack_limit |-> 0, redir_stdin |-> << >>, memory_limit |-> 0,
   redir_stdout |-> << >>, max_processes |-> 1, redir_stderr |-> << >>,
   redir_stderr_to_stdout |-> 0, silent |-> 0, verbose |-> 0, mode |-> "0"]

\* The command line before getopt_long() is called: optind counts the options
\* consumed, tok is the option returned last, given the codes returned so far.
NoArgs == [optind |-> 0, tok |-> [form |-> "", name |-> "", arg |-> << >>],
           given |-> {}]

\* The child before fork(): the steps of box_inside() done, the files behind
\* fds 0, 1 and 2, the rlimits set, the environment of the parent and the one
\* built for the command, the working directory.
NoInside ==
  [steps |-> << >>, fds |-> << "0", "1", "2" >>, rlim |-> << >>,
   environ |-> << >>, env |-> << >>, cwd |-> << >>]

BoxInit ==
  /\ pc = "main"
  /\ timeout = 0 /\ wall_timeout = 0 /\ extra_timeout = 0
  /\ metafile = FALSE /\ meta = << >>
  /\ box_pid = 0 /\ timer_tick = 0 /\ interrupt = 0
  /\ total_ms = 0 /\ wall_ms = 0
  /\ msg = NoMsg /\ exit_rc = 0 /\ rc = -1
  /\ handlers = FALSE /\ alarm_armed = FALSE
  /\ child = "none" /\ stat = NoStat /\ error_pipe = ""
  /\ kills = {} /\ wall = 0 /\ cpu = 0
  /\ reaped_by = "none" /\ blocked_sig = {}
  /\ nfatal = 0
  /\ args = NoArgs /\ cfg = DefaultCfg /\ printed = "" /\ inside = NoInside
  /\ io = NoIo /\ tbuf = NoTokbuf

envvars == <<child, stat, error_pipe, kills, wall, cpu, reaped_by, blocked_sig,
             nfatal>>
optvars == <<timeout, wall_timeout, extra_timeout>>

\* main(): an option error, no mode, two modes or no command: usage() prints
\* the help and exits 2. -M may have opened the meta-file before.
MainUsage ==
  /\ pc = "main"
  /\ \E m \in BOOLEAN : metafile' = m
  /\ pc' = "exited" /\ rc' = 2
  /\ UNCHANGED <<judgevars, cmdvars, optvars, meta, box_pid, timer_tick, interrupt, total_ms,
                 wall_ms, msg, exit_rc, handlers, alarm_armed, envvars>>

\* main(): --version.
MainVersion ==
  /\ pc = "main"
  /\ \E m \in BOOLEAN : metafile' = m
  /\ pc' = "exited" /\ rc' = 0
  /\ UNCHANGED <<judgevars, cmdvars, optvars, meta, box_pid, timer_tick, interrupt, total_ms,
                 wall_ms, msg, exit_rc, handlers, alarm_armed, envvars>>

\* main(): -M FILE when fopen() fails: metafile is NULL and meta_open() dies.
MainMetaOpenFails ==
  /\ pc = "main"
  /\ metafile' = FALSE
  /\ die("Failed to open metafile")
  /\ UNCHANGED <<judgevars, cmdvars, optvars, meta, box_pid, timer_tick, interrupt, total_ms,
                 wall_ms, exit_rc, rc, handlers, alarm_armed, envvars>>

\* main(): the options are parsed and the mode is --run with a command.
MainRun ==
  /\ pc = "main"
  /\ \E t \in Timeouts, w \in WallTimeouts, x \in ExtraTimeouts, m \in BOOLEAN :
       /\ timeout' = t /\ wall_timeout' = w /\ extra_timeout' = x
       /\ metafile' = m
  /\ pc' = "run"
  /\ UNCHANGED <<judgevars, cmdvars, meta, box_pid, timer_tick, interrupt, total_ms, wall_ms, msg,
                 exit_rc, rc, handlers, alarm_armed, envvars>>

\* run(): pipe(), setup_signals(), fork() succeeds.
RunFork ==
  /\ pc = "run"
  /\ handlers' = TRUE
  /\ box_pid' = 1 /\ child' = "setup"
  /\ pc' = "keeper"
  /\ UNCHANGED <<judgevars, cmdvars, optvars, metafile, meta, timer_tick, interrupt, total_ms,
                 wall_ms, msg, exit_rc, rc, alarm_armed, stat, error_pipe,
                 kills, wall, cpu, reaped_by, blocked_sig, nfatal>>

\* run(): fork() fails.
RunForkFails ==
  /\ pc = "run"
  /\ handlers' = TRUE
  /\ box_pid' = -1
  /\ die("clone")
  /\ UNCHANGED <<judgevars, cmdvars, optvars, metafile, meta, timer_tick, interrupt, total_ms,
                 wall_ms, exit_rc, rc, alarm_armed, envvars>>

(***************************************************************************)
(* minibox: box_keeper()                                                   *)
(***************************************************************************)
counters == <<nfatal>>
stats == <<total_ms, wall_ms>>
setup == <<optvars, metafile, handlers>>

\* box_keeper(): start_time, ticks_per_sec; the alarm is armed if a time
\* limit is set.
KeeperStart ==
  /\ pc = "keeper"
  /\ alarm_armed' = (timeout # 0 \/ wall_timeout # 0)
  /\ pc' = "loop"
  /\ UNCHANGED <<judgevars, cmdvars, setup, meta, box_pid, timer_tick, interrupt, stats, msg,
                 exit_rc, rc, envvars>>

\* Loop: if (interrupt) { meta_printf("exitsig"); err("SG: Interrupted"); }
LoopInterrupt ==
  /\ pc = "loop"
  /\ IF interrupt # 0
     THEN /\ meta' = meta_printf(<< Line("exitsig", interrupt) >>)
          /\ err("SG", "Interrupted")
          /\ blocked_sig' = blocked_sig \ {"int"}
     ELSE /\ pc' = "tick"
          /\ UNCHANGED <<meta, msg, blocked_sig>>
  /\ UNCHANGED <<judgevars, cmdvars, setup, box_pid, timer_tick, interrupt, stats, exit_rc, rc,
                 alarm_armed, child, stat, error_pipe, kills, wall, cpu,
                 reaped_by, counters>>

\* Loop: if (timer_tick) { check_timeout(); timer_tick = 0; }
LoopTick ==
  /\ pc = "tick"
  /\ IF timer_tick # 0
     THEN pc' = "check_timeout" /\ blocked_sig' = blocked_sig \ {"tick"}
     ELSE pc' = "wait4" /\ UNCHANGED blocked_sig
  /\ UNCHANGED <<judgevars, cmdvars, setup, meta, box_pid, timer_tick, interrupt, stats, msg,
                 exit_rc, rc, alarm_armed, child, stat, error_pipe, kills,
                 wall, cpu, reaped_by, counters>>

\* check_timeout(): w is the wall clock now, ms the CPU time /proc reports
\* (proc_ok is FALSE when /proc/<pid>/stat cannot be read or parsed).
CheckTimeout ==
  /\ pc = "check_timeout"
  /\ \E w \in wall..MaxTime, ms \in cpu..MaxTime, proc_ok \in BOOLEAN :
       /\ wall' = IF wall_timeout # 0 THEN w ELSE wall
       /\ IF WallOver(w)
          THEN err("TO", "Time limit exceeded (wall clock)") /\ cpu' = cpu
          ELSE IF timeout = 0
          THEN pc' = "tick_clear" /\ UNCHANGED <<msg, cpu>>
          ELSE IF ~proc_ok
          THEN die("proc stat") /\ cpu' = cpu
          ELSE /\ cpu' = ms
               /\ IF CpuOver(ms)
                  THEN err("TO", "Time limit exceeded")
                  ELSE pc' = "tick_clear" /\ msg' = msg
  /\ UNCHANGED <<judgevars, cmdvars, setup, meta, box_pid, timer_tick, interrupt, stats, exit_rc,
                 rc, alarm_armed, child, stat, error_pipe, kills, reaped_by,
                 blocked_sig, counters>>

\* Loop: timer_tick = 0 after check_timeout() has returned.
TickClear ==
  /\ pc = "tick_clear"
  /\ timer_tick' = 0
  /\ pc' = "wait4"
  /\ UNCHANGED <<judgevars, cmdvars, setup, meta, box_pid, interrupt, stats, msg, exit_rc, rc,
                 alarm_armed, envvars>>

\* Loop: wait4() returns the pid of the child, which has terminated.
Wait4Reap ==
  /\ pc = "wait4"
  /\ child = "zombie"
  /\ child' = "reaped" /\ reaped_by' = "keeper"
  /\ pc' = "reaped"
  /\ UNCHANGED <<judgevars, cmdvars, setup, meta, box_pid, timer_tick, interrupt, stats, msg,
                 exit_rc, rc, alarm_armed, stat, error_pipe, kills, wall, cpu,
                 blocked_sig, counters>>

\* Loop: box_pid = 0; the error pipe is read; data in it is an internal
\* error of the box and goes to die().
ReadErrorPipe ==
  /\ pc = "reaped"
  /\ box_pid' = 0
  /\ IF PipeHasError(error_pipe)
     THEN die(error_pipe)
     ELSE pc' = "classify" /\ UNCHANGED msg
  /\ UNCHANGED <<judgevars, cmdvars, setup, meta, timer_tick, interrupt, stats, exit_rc, rc,
                 alarm_armed, child, stat, error_pipe, kills, wall, cpu,
                 reaped_by, blocked_sig, counters>>

\* Loop: WIFEXITED: final_stats(&rus), then exitcode and the verdict.
\* t and w are the CPU time of the rusage and the wall clock now.
ClassifyExited ==
  /\ pc = "classify"
  /\ stat.kind = "exit"
  /\ \E t \in cpu..MaxTime, w \in wall..MaxTime :
       LET v == Classify(stat, t, w) IN
       /\ total_ms' = t /\ wall_ms' = w /\ cpu' = t /\ wall' = w
       /\ meta' = meta_printf(final_stats(t, w) \o
                    (IF v = "RE" THEN << Line("exitcode", stat.n) >> ELSE << >>))
       /\ CASE v = "RE" -> err("RE", "Exited with error status")
            [] v = "TO" -> err("TO", "Time limit exceeded")
            [] v = "TOW" -> err("TO", "Time limit exceeded (wall clock)")
            [] OTHER -> pc' = "box_exit" /\ msg' = msg
       /\ exit_rc' = IF v = "OK" THEN 0 ELSE exit_rc
  /\ UNCHANGED <<judgevars, cmdvars, setup, box_pid, timer_tick, interrupt, rc, alarm_armed,
                 child, stat, error_pipe, kills, reaped_by, blocked_sig,
                 counters>>

\* Loop: WIFSIGNALED: exitsig, final_stats(&rus), err("SG: ...").
ClassifySignaled ==
  /\ pc = "classify"
  /\ stat.kind = "signal"
  /\ \E t \in cpu..MaxTime, w \in wall..MaxTime :
       /\ total_ms' = t /\ wall_ms' = w /\ cpu' = t /\ wall' = w
       /\ meta' = meta_printf(<< Line("exitsig", stat.n) >> \o final_stats(t, w))
  /\ err("SG", "Caught fatal signal")
  /\ UNCHANGED <<judgevars, cmdvars, setup, box_pid, timer_tick, interrupt, exit_rc, rc,
                 alarm_armed, child, stat, error_pipe, kills, reaped_by,
                 blocked_sig, counters>>

(***************************************************************************)
(* minibox: err(), die(), box_exit()                                       *)
(***************************************************************************)
\* err(): the "XX: " prefix of the message becomes the status line.
ErrStatus ==
  /\ pc = "err"
  /\ meta' = meta_printf(<< Line("status", msg.code) >>)
  /\ pc' = "err_msg"
  /\ UNCHANGED <<judgevars, cmdvars, setup, box_pid, timer_tick, interrupt, stats, msg, exit_rc,
                 rc, alarm_armed, envvars>>

\* err(): the message line, then box_exit(1).
ErrMessage ==
  /\ pc = "err_msg"
  /\ meta' = meta_printf(<< Line("message", msg.text) >>)
  /\ pc' = "box_exit" /\ exit_rc' = 1
  /\ UNCHANGED <<judgevars, cmdvars, setup, box_pid, timer_tick, interrupt, stats, msg, rc,
                 alarm_armed, envvars>>

\* die() in the keeper: if the child is still there, kill it.
DieKill ==
  /\ pc = "die"
  /\ kills' = IF box_pid > 0 THEN KillBox(kills) ELSE kills
  /\ pc' = "die_meta"
  /\ UNCHANGED <<judgevars, cmdvars, setup, meta, box_pid, timer_tick, interrupt, stats, msg,
                 exit_rc, rc, alarm_armed, child, stat, error_pipe, wall, cpu,
                 reaped_by, blocked_sig, counters>>

\* die() in the keeper: status:XX and the message, then box_exit(2).
DieMeta ==
  /\ pc = "die_meta"
  /\ meta' = meta_printf(DieLines(msg.text))
  /\ pc' = "box_exit" /\ exit_rc' = 2
  /\ UNCHANGED <<judgevars, cmdvars, setup, box_pid, timer_tick, interrupt, stats, msg, rc,
                 alarm_armed, envvars>>

\* box_exit(): with box_pid > 0 the child is killed (process group, then
\* the process) and killed:1 is written.
BoxExitKill ==
  /\ pc = "box_exit"
  /\ IF box_pid > 0
     THEN /\ kills' = KillBox(kills)
          /\ meta' = meta_printf(<< Line("killed", 1) >>)
          /\ pc' = "bx_wait"
     ELSE /\ pc' = "bx_close"
          /\ UNCHANGED <<kills, meta>>
  /\ UNCHANGED <<judgevars, cmdvars, setup, box_pid, timer_tick, interrupt, stats, msg, exit_rc,
                 rc, alarm_armed, child, stat, error_pipe, wall, cpu,
                 reaped_by, blocked_sig, counters>>

\* box_exit(): wait4() on the child (retried on EINTR), then final_stats();
\* if the child is not there any more, wait4() fails and no stats follow.
BoxExitWait ==
  /\ pc = "bx_wait"
  /\ child \in {"zombie", "reaped"}
  /\ IF child = "zombie"
     THEN \E t \in cpu..MaxTime, w \in wall..MaxTime :
            /\ total_ms' = t /\ wall_ms' = w /\ cpu' = t /\ wall' = w
            /\ meta' = meta_printf(final_stats(t, w))
            /\ child' = "reaped" /\ reaped_by' = "box_exit"
     ELSE UNCHANGED <<stats, cpu, wall, meta, child, reaped_by>>
  /\ pc' = "bx_close"
  /\ UNCHANGED <<judgevars, cmdvars, setup, box_pid, timer_tick, interrupt, msg, exit_rc, rc,
                 alarm_armed, stat, error_pipe, kills, blocked_sig, counters>>

\* box_exit(): meta_close(); exit(rc).
BoxExitClose ==
  /\ pc = "bx_close"
  /\ rc' = exit_rc
  /\ pc' = "exited"
  /\ UNCHANGED <<judgevars, cmdvars, setup, meta, box_pid, timer_tick, interrupt, stats, msg,
                 exit_rc, alarm_armed, envvars>>

(***************************************************************************)
(* minibox: the child (box_inside) and the signals the keeper receives     *)
(***************************************************************************)
keepervars == <<setup, meta, box_pid, timer_tick, interrupt, stats, msg,
                exit_rc, rc, alarm_armed>>

\* box_inside(): a setup step fails; die() in the child writes the message
\* to the error pipe and the child exits 2.
ChildSetupFails ==
  /\ child = "setup"
  /\ \E e \in ChildErrors : error_pipe' = e
  /\ stat' = [kind |-> "exit", n |-> 2]
  /\ child' = "zombie"
  /\ UNCHANGED <<judgevars, cmdvars, pc, keepervars, kills, wall, cpu, reaped_by, blocked_sig,
                 counters>>

\* box_inside(): execve() succeeds.
ChildExec ==
  /\ child = "setup"
  /\ child' = "running"
  /\ UNCHANGED <<judgevars, cmdvars, pc, keepervars, stat, error_pipe, kills, wall, cpu,
                 reaped_by, blocked_sig, counters>>

\* The program exits on its own.
ChildExits ==
  /\ child = "running"
  /\ \E n \in ExitCodes : stat' = [kind |-> "exit", n |-> n]
  /\ child' = "zombie"
  /\ UNCHANGED <<judgevars, cmdvars, pc, keepervars, error_pipe, kills, wall, cpu, reaped_by,
                 blocked_sig, counters>>

\* The program dies of a signal of its own.
ChildSignaled ==
  /\ child = "running"
  /\ stat' = [kind |-> "signal", n |-> SIGSEGV]
  /\ child' = "zombie"
  /\ UNCHANGED <<judgevars, cmdvars, pc, keepervars, error_pipe, kills, wall, cpu, reaped_by,
                 blocked_sig, counters>>

\* The SIGKILL the keeper has sent ends the child.
ChildKilled ==
  /\ child \in {"setup", "running"}
  /\ kills # {}
  /\ stat' = [kind |-> "signal", n |-> SIGKILL]
  /\ child' = "zombie"
  /\ UNCHANGED <<judgevars, cmdvars, pc, keepervars, error_pipe, kills, wall, cpu, reaped_by,
                 blocked_sig, counters>>

\* signal_alarm(): timer_tick = 1; alarm(1).
SigAlarm ==
  /\ alarm_armed /\ pc # "exited"
  /\ timer_tick' = 1
  /\ pc' = AfterHandler(pc)
  /\ blocked_sig' = IF Blocked THEN blocked_sig \cup {"tick"} ELSE blocked_sig
  /\ UNCHANGED <<judgevars, cmdvars, setup, meta, box_pid, interrupt, stats, msg, exit_rc, rc,
                 alarm_armed, child, stat, error_pipe, kills, wall, cpu,
                 reaped_by, nfatal>>

\* signal_int(): interrupt = signum.
SigInterrupt ==
  /\ handlers /\ pc # "exited"
  /\ \E s \in InterruptSignals : interrupt' = s
  /\ pc' = AfterHandler(pc)
  /\ blocked_sig' = IF Blocked THEN blocked_sig \cup {"int"} ELSE blocked_sig
  /\ UNCHANGED <<judgevars, cmdvars, setup, meta, box_pid, timer_tick, stats, msg, exit_rc, rc,
                 alarm_armed, child, stat, error_pipe, kills, wall, cpu,
                 reaped_by, nfatal>>

\* signal_fatal(): die("Sandbox keeper received fatal signal").
SigFatal ==
  /\ handlers /\ pc # "exited"
  /\ nfatal < MaxFatal
  /\ nfatal' = nfatal + 1
  /\ die("Sandbox keeper received fatal signal")
  /\ UNCHANGED <<judgevars, cmdvars, setup, meta, box_pid, timer_tick, interrupt, stats, exit_rc,
                 rc, alarm_armed, child, stat, error_pipe, kills, wall, cpu,
                 reaped_by, blocked_sig>>

BoxNext ==
  \/ MainUsage \/ MainVersion \/ MainMetaOpenFails \/ MainRun
  \/ RunFork \/ RunForkFails
  \/ KeeperStart \/ LoopInterrupt \/ LoopTick \/ CheckTimeout \/ TickClear
  \/ Wait4Reap \/ ReadErrorPipe \/ ClassifyExited \/ ClassifySignaled
  \/ ErrStatus \/ ErrMessage \/ DieKill \/ DieMeta
  \/ BoxExitKill \/ BoxExitWait \/ BoxExitClose
  \/ ChildSetupFails \/ ChildExec \/ ChildExits \/ ChildSignaled \/ ChildKilled
  \/ SigAlarm \/ SigInterrupt \/ SigFatal

Init == BoxInit /\ JudgeIdle
Next == BoxNext
Spec == Init /\ [][Next]_vars

(***************************************************************************)
(* minibox: main() option by option, run() and box_inside() step by step   *)
(***************************************************************************)
\* Number of options on a command line of the model.
MaxArgs == 3

\* The characters of short_opts (each of b, c, d, E, i, k, m, M, o, q, r, t,
\* w, x takes an argument, p an optional one) and the names of long_opts with
\* the code getopt_long() returns for them.
ShortOpts == {"b", "c", "d", "e", "E", "i", "k", "m", "M", "o", "p", "q", "r",
              "s", "t", "v", "w", "x"}
LongOpts ==
  [chdir |-> "c", fsize |-> "f", env |-> "E", extra_time |-> "x",
   full_env |-> "e", mem |-> "m", meta |-> "M", processes |-> "p",
   run |-> "OPT_RUN", silent |-> "s", stack |-> "k", stderr |-> "r",
   stderr_to_stdout |-> "OPT_STDERR_TO_STDOUT", stdin |-> "i", stdout |-> "o",
   time |-> "t", verbose |-> "v", version |-> "OPT_VERSION",
   wall_time |-> "w"]

\* getopt_long() on one option of the command line: the code of a known
\* option, "?" for an unknown one.
getopt_long(tok) ==
  IF tok.form = "short"
  THEN IF tok.name \in ShortOpts THEN tok.name ELSE "?"
  ELSE IF tok.name \in DOMAIN LongOpts THEN LongOpts[tok.name] ELSE "?"

\* The name of the variable of the built-in rule, and another variable.
LIBC_FATAL_STDERR_ == "LIBC_FATAL_STDERR_"
OtherVar == "HOME"

\* default_env_rules[]: LIBC_FATAL_STDERR_=1.
default_env_rules ==
  << [var |-> << LIBC_FATAL_STDERR_ >>, val |-> << "1" >>, has_val |-> TRUE] >>

\* Index of the first "=" of a string, 0 if there is none (strchr).
strchr_eq(a) ==
  IF \E i \in DOMAIN a : a[i] = "="
  THEN CHOOSE i \in DOMAIN a : a[i] = "=" /\ \A j \in 1..(i - 1) : a[j] # "="
  ELSE 0

\* set_env_action(): <<1, the rule appended to the list>> or <<0>> when the
\* argument begins with "=". Without "=" the value is NULL (inherit).
set_env_action(a0) ==
  LET sep == strchr_eq(a0)
  IN IF sep = 1 THEN << 0 >>
     ELSE IF sep > 0
     THEN << 1, [var |-> SubSeq(a0, 1, sep - 1),
                 val |-> SubSeq(a0, sep + 1, Len(a0)), has_val |-> TRUE] >>
     ELSE << 1, [var |-> a0, val |-> << >>, has_val |-> FALSE] >>

\* Variant of match_env_var: the byte after the name is not looked at.
match_env_var_prefix(entry, r) ==
  /\ Len(entry) > Len(r.var)
  /\ SubSeq(entry, 1, Len(r.var)) = r.var

\* match_env_var(): the entry begins with the variable's name and "=".
match_env_var(entry, r) ==
  /\ Len(entry) > Len(r.var)
  /\ SubSeq(entry, 1, Len(r.var)) = r.var
  /\ entry[Len(r.var) + 1] = "="

\* Index of the first entry of env the rule matches, Len(env) + 1 if none.
FirstMatch(env, r) ==
  IF \E i \in DOMAIN env : match_env_var(env[i], r)
  THEN CHOOSE i \in DOMAIN env :
         match_env_var(env[i], r) /\ \A j \in 1..(i - 1) : ~match_env_var(env[j], r)
  ELSE Len(env) + 1

\* apply_env_rule(): the variable is removed (the last entry takes its slot),
\* then set to the rule's value, left unset for an empty value, or copied
\* from the parent's environment environ when the value is NULL.
apply_env_rule(env, r, environ) ==
  LET pos == FirstMatch(env, r)
      n == Len(env)
      removed == IF pos <= n
                 THEN SubSeq([env EXCEPT ![pos] = env[n]], 1, n - 1)
                 ELSE env
      epos == FirstMatch(environ, r)
  IN IF r.has_val
     THEN IF r.val = << >> THEN removed
          ELSE Append(removed, r.var \o << "=" >> \o r.val)
     ELSE IF epos > Len(environ) THEN removed
          ELSE Append(removed, environ[epos])

RECURSIVE ApplyRules(_, _, _)
ApplyRules(env, rules, environ) ==
  IF rules = << >> THEN env
  ELSE ApplyRules(apply_env_rule(env, Head(rules), environ), Tail(rules), environ)

\* Variant of setup_environment: the built-in rules follow the user's rules.
setup_environment_builtin_last(c, environ) ==
  ApplyRules(IF c.pass_environ = 1 THEN environ ELSE << >>,
             c.rules \o default_env_rules, environ)

\* setup_environment(): the built-in rules are linked in front of the user's
\* rules; the environment starts from environ with -e and empty without; the
\* rules are applied one by one.
setup_environment(c, environ) ==
  ApplyRules(IF c.pass_environ = 1 THEN environ ELSE << >>,
             default_env_rules \o c.rules, environ)

\* atoi() and atof() on the arguments of the model, which are an optional
\* sign and decimal digits followed by other characters: the value of the
\* leading digits with the sign.
RECURSIVE LeadingDigits(_)
LeadingDigits(a) ==
  IF a = << >> \/ a[1] \notin Digits THEN << >>
  ELSE << a[1] >> \o LeadingDigits(Tail(a))
atoi(a) ==
  IF a # << >> /\ a[1] = "-" THEN 0 - DecVal(LeadingDigits(Tail(a)))
  ELSE IF a # << >> /\ a[1] = "+" THEN DecVal(LeadingDigits(Tail(a)))
  ELSE DecVal(LeadingDigits(a))

\* The options of the model's command lines: every option of the usage text
\* in each form it has, the three arguments of short_opts that main() has no
\* case for, and an unknown option of each form. NULL strings are << >>.
Opt(form, name, arg) == [form |-> form, name |-> name, arg |-> arg]
EnvArgs ==
  { << LIBC_FATAL_STDERR_, "=", "0" >>, << LIBC_FATAL_STDERR_, "=" >>,
    << LIBC_FATAL_STDERR_ >>, << OtherVar, "=", "1" >>, << "=", "1" >> }
ArgTokens ==
  { Opt("short", "c", << "d", "i", "r" >>), Opt("long", "chdir", << "d", "i", "r" >>),
    Opt("short", "f", << "6", "4" >>), Opt("long", "fsize", << "6", "4" >>),
    Opt("short", "x", << "2" >>), Opt("long", "extra_time", << "2" >>),
    Opt("short", "e", << >>), Opt("long", "full_env", << >>),
    Opt("short", "m", << "6", "4" >>), Opt("long", "mem", << "6", "4" >>),
    Opt("short", "M", << "m" >>), Opt("long", "meta", << "m" >>),
    Opt("short", "s", << >>), Opt("long", "silent", << >>),
    Opt("short", "k", << "6", "4" >>), Opt("long", "stack", << "6", "4" >>),
    Opt("short", "r", << "e", "r", "r" >>), Opt("long", "stderr", << "e", "r", "r" >>),
    Opt("long", "stderr_to_stdout", << >>),
    Opt("short", "i", << "i", "n" >>), Opt("long", "stdin", << "i", "n" >>),
    Opt("short", "o", << "o", "u", "t" >>), Opt("long", "stdout", << "o", "u", "t" >>),
    Opt("short", "p", << >>), Opt("long", "processes", << >>),
    Opt("short", "p", << "2" >>), Opt("long", "processes", << "2" >>),
    Opt("short", "t", << "1" >>), Opt("long", "time", << "1" >>),
    Opt("short", "v", << >>), Opt("long", "verbose", << >>),
    Opt("short", "w", << "1" >>), Opt("long", "wall_time", << "1" >>),
    Opt("long", "run", << >>), Opt("long", "version", << >>),
    Opt("short", "b", << "1" >>), Opt("short", "d", << "1" >>),
    Opt("short", "q", << "1" >>),
    Opt("short", "z", << >>), Opt("long", "nope", << >>) }
    \cup { Opt(f, n, a) : f \in {"short"}, n \in {"E"}, a \in EnvArgs }
    \cup { Opt(f, n, a) : f \in {"long"}, n \in {"env"}, a \in EnvArgs }

\* getopt_long() has returned the code c for the option tok.
Consume(a, tok, c) ==
  [optind |-> a.optind + 1, tok |-> tok, given |-> a.given \cup {c}]

\* The variables main()'s option loop leaves alone.
parsevars == <<meta, box_pid, timer_tick, interrupt, total_ms, wall_ms,
               exit_rc, handlers, alarm_armed, envvars, inside>>

\* Variant of the switch: --stderr-to-stdout keeps the file of an earlier -r.
SetCfgKeepStderr(c, a, g) ==
  CASE c = "r" -> [g EXCEPT !.redir_stderr = a, !.redir_stderr_to_stdout = 0]
    [] c = "OPT_STDERR_TO_STDOUT" -> [g EXCEPT !.redir_stderr_to_stdout = 1]
    [] c \in {"OPT_RUN", "OPT_VERSION"} -> [g EXCEPT !.mode = c]
    [] OTHER -> g

\* main(), the switch: the cases that set an option global and go on.
SetCfg(c, a, g) ==
  CASE c = "c" -> [g EXCEPT !.set_cwd = a]
    [] c = "f" -> [g EXCEPT !.fsize_limit = atoi(a)]
    [] c = "e" -> [g EXCEPT !.pass_environ = 1]
    [] c = "E" -> [g EXCEPT !.rules = Append(@, set_env_action(a)[2])]
    [] c = "k" -> [g EXCEPT !.stack_limit = atoi(a)]
    [] c = "i" -> [g EXCEPT !.redir_stdin = a]
    [] c = "m" -> [g EXCEPT !.memory_limit = atoi(a)]
    [] c = "o" -> [g EXCEPT !.redir_stdout = a]
    [] c = "p" -> [g EXCEPT !.max_processes = IF a # << >> THEN atoi(a) ELSE 0]
    [] c = "r" -> [g EXCEPT !.redir_stderr = a, !.redir_stderr_to_stdout = 0]
    [] c = "s" -> [g EXCEPT !.silent = @ + 1]
    [] c = "v" -> [g EXCEPT !.verbose = @ + 1]
    [] c \in {"OPT_RUN", "OPT_VERSION"} -> [g EXCEPT !.mode = c]
    [] c = "OPT_STDERR_TO_STDOUT" ->
         [g EXCEPT !.redir_stderr = << >>, !.redir_stderr_to_stdout = 1]
    [] OTHER -> g

\* Variant of the switch: a second command replaces the first.
EndsInUsageModesReplace(c, a, g) ==
  \/ c \in {"?", "b", "d", "q"}
  \/ c = "E" /\ set_env_action(a)[1] = 0

\* main(), the switch: the cases that end in usage(): an option the switch
\* has no case for, -E with an argument that begins with "=", and a command
\* after another command.
EndsInUsage(c, a, g) ==
  \/ c \in {"?", "b", "d", "q"}
  \/ c = "E" /\ set_env_action(a)[1] = 0
  \/ c \in {"OPT_RUN", "OPT_VERSION"} /\ g.mode # "0" /\ g.mode # c

\* main(): one round of the option loop for an option that sets a global.
OptionRound(tok) ==
  LET c == getopt_long(tok)
  IN /\ ~EndsInUsage(c, tok.arg, cfg) /\ c # "M"
     /\ args' = Consume(args, tok, c)
     /\ cfg' = SetCfg(c, tok.arg, cfg)
     /\ timeout' = IF c = "t" THEN 1000 * atoi(tok.arg) ELSE timeout
     /\ wall_timeout' = IF c = "w" THEN 1000 * atoi(tok.arg) ELSE wall_timeout
     /\ extra_timeout' = IF c = "x" THEN 1000 * atoi(tok.arg) ELSE extra_timeout

\* main(): getopt_long() returns an option that sets a global.
MainOption ==
  /\ pc = "main" /\ args.optind < MaxArgs
  /\ \E tok \in ArgTokens : OptionRound(tok)
  /\ UNCHANGED <<judgevars, parsevars, pc, rc, msg, metafile, printed>>

\* main(): getopt_long() returns an option whose case calls usage(), which
\* prints the help and exits 2.
MainOptionUsage ==
  /\ pc = "main" /\ args.optind < MaxArgs
  /\ \E tok \in ArgTokens :
       /\ EndsInUsage(getopt_long(tok), tok.arg, cfg)
       /\ args' = Consume(args, tok, getopt_long(tok))
  /\ printed' = "usage"
  /\ pc' = "exited" /\ rc' = 2
  /\ UNCHANGED <<judgevars, parsevars, optvars, cfg, msg, metafile>>

\* main(): -M FILE: meta_open() opens the meta-file or dies.
MainOptionMeta ==
  /\ pc = "main" /\ args.optind < MaxArgs
  /\ \E tok \in ArgTokens :
       /\ getopt_long(tok) = "M"
       /\ args' = Consume(args, tok, "M")
  /\ \E ok \in BOOLEAN :
       /\ metafile' = ok
       /\ IF ok THEN UNCHANGED <<pc, msg>> ELSE die("Failed to open metafile")
  /\ UNCHANGED <<judgevars, parsevars, optvars, cfg, rc, printed>>

\* main() after the options: without a command usage(); --version prints the
\* version and returns 0; --run needs a command to run, and calls run().
MainEnd ==
  /\ pc = "main"
  /\ \E has_command \in BOOLEAN :
       IF cfg.mode = "0" \/ (cfg.mode = "OPT_RUN" /\ ~has_command)
       THEN printed' = "usage" /\ pc' = "exited" /\ rc' = 2
       ELSE IF cfg.mode = "OPT_VERSION"
       THEN printed' = "version" /\ pc' = "exited" /\ rc' = 0
       ELSE pc' = "run" /\ UNCHANGED <<printed, rc>>
  /\ UNCHANGED <<judgevars, parsevars, optvars, args, cfg, msg, metafile>>

\* The parent's environment.
Environs ==
  { << >>,
    << << LIBC_FATAL_STDERR_, "=", "0" >> >>,
    << << OtherVar, "=", "2" >>, << LIBC_FATAL_STDERR_, "=", "0" >> >> }

\* Variant of box_inside: the environment is built before the rlimits are set.
InsideOrderEnvFirst ==
  << "close_error_pipe", "meta_close", "reset_signals", "setpgrp",
     "open_stdin", "open_stdout", "open_stderr", "dup2_stdout_stderr",
     "setup_environment",
     "RLIMIT_AS", "RLIMIT_FSIZE", "RLIMIT_STACK", "RLIMIT_NOFILE",
     "RLIMIT_MEMLOCK", "RLIMIT_NPROC", "chdir", "execve" >>

\* box_inside(): the steps in the order of the code; setup_fds() and
\* setup_rlimits() are given by their system calls.
InsideOrder ==
  << "close_error_pipe", "meta_close", "reset_signals", "setpgrp",
     "open_stdin", "open_stdout", "open_stderr", "dup2_stdout_stderr",
     "RLIMIT_AS", "RLIMIT_FSIZE", "RLIMIT_STACK", "RLIMIT_NOFILE",
     "RLIMIT_MEMLOCK", "RLIMIT_NPROC", "setup_environment", "chdir",
     "execve" >>

\* The condition the code puts on a step.
StepTaken(s, g) ==
  CASE s = "open_stdin" -> g.redir_stdin # << >>
    [] s = "open_stdout" -> g.redir_stdout # << >>
    [] s = "open_stderr" -> g.redir_stderr # << >>
    [] s = "dup2_stdout_stderr" -> g.redir_stderr_to_stdout # 0
    [] s = "RLIMIT_AS" -> g.memory_limit # 0
    [] s = "RLIMIT_FSIZE" -> g.fsize_limit # 0
    [] s = "RLIMIT_NPROC" -> g.max_processes # 0
    [] s = "chdir" -> g.set_cwd # << >>
    [] OTHER -> TRUE

\* The steps whose failure the code checks and reports with die().
StepCanFail(s) ==
  s \notin {"close_error_pipe", "meta_close", "reset_signals", "setpgrp",
            "setup_environment"}

\* Index in InsideOrder of the step the child is at: i has been passed when
\* the step is done or its condition is false. Len + 1 after execve().
PassedUpTo(in, g) ==
  IF in.steps = << >> THEN 0
  ELSE CHOOSE i \in DOMAIN InsideOrder : InsideOrder[i] = in.steps[Len(in.steps)]
InsidePos(in, g) ==
  LET after == {i \in DOMAIN InsideOrder :
                  i > PassedUpTo(in, g) /\ StepTaken(InsideOrder[i], g)}
  IN CHOOSE i \in after : \A j \in after : i <= j

\* RLIM_INFINITY, which is (rlim_t) -1: all bits of the unsigned type set.
RLIM_INFINITY == "RLIM_INFINITY"

\* The conversion of an int to the unsigned rlim_t in the call of
\* setup_rlim(): a negative n becomes 2^64 + n, which is RLIM_INFINITY
\* for -1 and RLIM_INFINITY + n + 1 below that.
rlim_t(n) ==
  IF n >= 0 THEN n
  ELSE IF n = -1 THEN RLIM_INFINITY
  ELSE << RLIM_INFINITY, n + 1 >>

\* What a step that succeeds does to the child.
StepEffect(s, in, g, environ) ==
  CASE s = "open_stdin" -> [in EXCEPT !.fds[1] = g.redir_stdin]
    [] s = "open_stdout" -> [in EXCEPT !.fds[2] = g.redir_stdout]
    [] s = "open_stderr" -> [in EXCEPT !.fds[3] = g.redir_stderr]
    [] s = "dup2_stdout_stderr" -> [in EXCEPT !.fds[3] = in.fds[2]]
    [] s = "RLIMIT_AS" -> [in EXCEPT !.rlim = Append(@, << s, g.memory_limit * 1024 >>)]
    [] s = "RLIMIT_FSIZE" -> [in EXCEPT !.rlim = Append(@, << s, g.fsize_limit * 1024 >>)]
    [] s = "RLIMIT_STACK" ->
         [in EXCEPT !.rlim = Append(@, << s, IF g.stack_limit # 0
                                              THEN g.stack_limit * 1024
                                              ELSE RLIM_INFINITY >>)]
    [] s = "RLIMIT_NOFILE" -> [in EXCEPT !.rlim = Append(@, << s, 64 >>)]
    [] s = "RLIMIT_MEMLOCK" -> [in EXCEPT !.rlim = Append(@, << s, 0 >>)]
    [] s = "RLIMIT_NPROC" -> [in EXCEPT !.rlim = Append(@, << s, rlim_t(g.max_processes) >>)]
    [] s = "setup_environment" ->
         [in EXCEPT !.environ = environ, !.env = setup_environment(g, environ)]
    [] s = "chdir" -> [in EXCEPT !.cwd = g.set_cwd]
    [] OTHER -> in

\* The variables the child's setup leaves alone.
insidevars == <<pc, keepervars, kills, wall, cpu, reaped_by, blocked_sig,
                counters, args, cfg, printed>>

\* box_inside(): the next step succeeds; after execve() the program runs.
InsideStep ==
  /\ child = "setup"
  /\ LET s == InsideOrder[InsidePos(inside, cfg)]
     IN /\ \E environ \in (IF s = "setup_environment" THEN Environs ELSE {<< >>}) :
             inside' = [StepEffect(s, inside, cfg, environ)
                          EXCEPT !.steps = Append(@, s)]
        /\ child' = IF s = "execve" THEN "running" ELSE child
  /\ UNCHANGED <<judgevars, insidevars, stat, error_pipe>>

\* box_inside(): the next step fails: die() in the child writes the message
\* to the error pipe and the child exits 2.
InsideStepFails ==
  /\ child = "setup"
  /\ LET s == InsideOrder[InsidePos(inside, cfg)]
     IN StepCanFail(s) /\ error_pipe' = s
  /\ stat' = [kind |-> "exit", n |-> 2]
  /\ child' = "zombie"
  /\ UNCHANGED <<judgevars, insidevars, inside>>

NextCmd ==
  \/ MainOption \/ MainOptionUsage \/ MainOptionMeta \/ MainEnd
  \/ RunFork \/ RunForkFails
  \/ DieKill \/ DieMeta \/ BoxExitKill \/ BoxExitClose
  \/ InsideStep \/ InsideStepFails
SpecCmd == Init /\ [][NextCmd]_vars

(***************************************************************************)
(* minibox: the resource limits from the command line to the child         *)
(***************************************************************************)
\* The options of the command lines about limits: -p in both forms without
\* a value, with a count, with 0, with a negative count and with a word;
\* -m; --run.
LimitTokens ==
  { Opt(f, n, a) : f \in {"short"}, n \in {"p"},
                   a \in { << >>, << "2" >>, << "0" >>, << "-", "1" >>,
                           << "-", "2" >>, << "x" >> } }
    \cup { Opt("long", "processes", << >>), Opt("long", "processes", << "2" >>),
           Opt("long", "processes", << "-", "1" >>),
           Opt("short", "m", << "6", "4" >>), Opt("long", "run", << >>) }

\* main(): getopt_long() returns one of the options about limits.
LimitOption ==
  /\ pc = "main" /\ args.optind < MaxArgs
  /\ \E tok \in LimitTokens : OptionRound(tok)
  /\ UNCHANGED <<judgevars, parsevars, pc, rc, msg, metafile, printed>>

NextRlim ==
  \/ LimitOption \/ MainOptionUsage \/ MainEnd \/ RunFork
  \/ InsideStep \/ InsideStepFails
SpecRlim == Init /\ [][NextRlim]_vars

(***************************************************************************)
(* minibox: the environment rules by themselves                            *)
(***************************************************************************)
\* Number of -E options on a command line of the model.
MaxRules == 3

\* A variable whose name begins with the name of another one.
LongerVar == << OtherVar, "2" >>

\* Arguments of -E: for each variable the three kinds of rule, and a value
\* that holds "=".
EnvRuleArgs ==
  UNION { { v, v \o << "=" >>, v \o << "=", "1" >> } :
            v \in { << LIBC_FATAL_STDERR_ >>, << OtherVar >>, LongerVar } }
    \cup { << OtherVar, "=", "1", "=", "1" >> }

\* The parent's environment.
ParentEnvs ==
  { << >>,
    << << LIBC_FATAL_STDERR_, "=", "0" >> >>,
    << << OtherVar, "=", "2" >>, << LIBC_FATAL_STDERR_, "=", "0" >> >>,
    << LongerVar \o << "=", "3" >>, << OtherVar, "=", "2" >> >>,
    << << OtherVar, "=", "2", "=", "2" >>, LongerVar \o << "=", "3" >>,
       << LIBC_FATAL_STDERR_, "=", "0" >> >> }

\* What the environment options and setup_environment() leave alone.
envrulevars == <<judgevars, boxvars, args, printed>>

\* main(): -E with an argument set_env_action() accepts.
EnvRule ==
  /\ inside.steps = << >> /\ Len(cfg.rules) < MaxRules
  /\ \E a \in EnvRuleArgs :
       /\ ~EndsInUsage("E", a, cfg)
       /\ cfg' = SetCfg("E", a, cfg)
  /\ UNCHANGED <<envrulevars, inside>>

\* main(): -e.
EnvFull ==
  /\ inside.steps = << >> /\ cfg.pass_environ = 0
  /\ cfg' = SetCfg("e", << >>, cfg)
  /\ UNCHANGED <<envrulevars, inside>>

\* box_inside(): setup_environment() in a parent's environment.
EnvSetup ==
  /\ inside.steps = << >>
  /\ \E environ \in ParentEnvs :
       inside' = [StepEffect("setup_environment", inside, cfg, environ)
                    EXCEPT !.steps = << "setup_environment" >>]
  /\ UNCHANGED <<envrulevars, cfg>>

NextEnv == EnvRule \/ EnvFull \/ EnvSetup
SpecEnv == Init /\ [][NextEnv]_vars

(***************************************************************************)
(* judgelib: a stream used through its operations (judge.h, io.cc)         *)
(***************************************************************************)
\* Number of flush() calls on a stream of the model.
MaxFlush == 1

\* open_read() of a file: open_fd().
StreamOpenRead ==
  /\ io.mode = "none"
  /\ \E f \in TokFiles, n \in ReadSizes :
       io' = [mode |-> "read", s |-> [OpenStream EXCEPT !.rd = n], data |-> f,
              flushes |-> 0]
  /\ UNCHANGED <<jpc, opts, t1, t2, jrc, jmsg, shufvars, tbuf, boxvars, cmdvars>>

\* open_write() of a file: open_fd().
StreamOpenWrite ==
  /\ io.mode = "none"
  /\ io' = [mode |-> "write", s |-> OpenStream, data |-> << >>, flushes |-> 0]
  /\ UNCHANGED <<jpc, opts, t1, t2, jrc, jmsg, shufvars, tbuf, boxvars, cmdvars>>

\* getc() on a stream opened for reading.
StreamGetc ==
  /\ io.mode = "read"
  /\ io' = [io EXCEPT !.s = getc(io.s, io.data)[2]]
  /\ UNCHANGED <<jpc, opts, t1, t2, jrc, jmsg, shufvars, tbuf, boxvars, cmdvars>>

\* peekc() on a stream opened for reading.
StreamPeekc ==
  /\ io.mode = "read"
  /\ io' = [io EXCEPT !.s = peekc(io.s, io.data)[2]]
  /\ UNCHANGED <<jpc, opts, t1, t2, jrc, jmsg, shufvars, tbuf, boxvars, cmdvars>>

\* ungetc() on a stream opened for reading: assert(pos > buf) ends the
\* program when nothing can be given back.
StreamUngetc ==
  /\ io.mode = "read"
  /\ io' = IF io.s.pos > 0 THEN [io EXCEPT !.s = ungetc(io.s)]
           ELSE [io EXCEPT !.mode = "aborted"]
  /\ UNCHANGED <<jpc, opts, t1, t2, jrc, jmsg, shufvars, tbuf, boxvars, cmdvars>>

\* putc() on a stream opened for writing.
StreamPutc ==
  /\ io.mode = "write"
  /\ io' = [io EXCEPT !.s = putc(io.s)]
  /\ UNCHANGED <<jpc, opts, t1, t2, jrc, jmsg, shufvars, tbuf, boxvars, cmdvars>>

\* flush() on a stream, as the program or the destructor calls it.
StreamFlush ==
  /\ io.mode \in {"read", "write"} /\ io.flushes < MaxFlush
  /\ io' = [io EXCEPT !.s = flush(io.s), !.flushes = @ + 1]
  /\ UNCHANGED <<jpc, opts, t1, t2, jrc, jmsg, shufvars, tbuf, boxvars, cmdvars>>

NextStream ==
  \/ StreamOpenRead \/ StreamOpenWrite \/ StreamGetc \/ StreamPeekc
  \/ StreamUngetc \/ StreamPutc \/ StreamFlush
SpecStream == Init /\ [][NextStream]_vars



InitToken == BoxInit /\ JudgeInit
NextToken == JudgeBothEnd \/ JudgeFirstEnds \/ JudgeSecondEnds \/ JudgeCompare
SpecToken == InitToken /\ [][NextToken]_vars

InitReal == BoxInit /\ JudgeInitReal
SpecReal == InitReal /\ [][NextToken]_vars

InitShuffle == BoxInit /\ ShuffleInit
NextShuffle ==
  ShuffleRead \/ ShuffleCountDiffers \/ ShuffleLineDiffers \/ ShuffleAccept
SpecShuffle == InitShuffle /\ [][NextShuffle]_vars

InitMain == BoxInit /\ JudgeMainInit
NextMain ==
  \/ TokenUsage \/ TokenOpenFails \/ TokenMain
  \/ JudgeBothEnd \/ JudgeFirstEnds \/ JudgeSecondEnds \/ JudgeCompare
  \/ ShuffleUsage \/ ShuffleOpenFails \/ ShuffleMain
  \/ ShuffleRead \/ ShuffleCountDiffers \/ ShuffleLineDiffers \/ ShuffleAccept
SpecMain == InitMain /\ [][NextMain]_vars

InitTokenizer == BoxInit /\ TokenizerInit
NextTokenizer == TokenizerNext \/ TokenizerEnd
SpecTokenizer == InitTokenizer /\ [][NextTokenizer]_vars

InitGrow == BoxInit /\ GrowInit
NextGrow == GrowFirst \/ GrowStore \/ GrowRun \/ GrowEnd
SpecGrow == InitGrow /\ [][NextGrow]_vars

NextGetNl == TokenizerNext \/ TokenizerGetNl \/ TokenizerEnd
SpecGetNl == InitTokenizer /\ [][NextGetNl]_vars

(***************************************************************************)
(* Properties of the supervisor                                            *)
(***************************************************************************)
Done == pc = "exited"
Has(k, v) == \E i \in DOMAIN meta : meta[i].key = k /\ meta[i].val = v
HasKey(k) == \E i \in DOMAIN meta : meta[i].key = k
Count(k) == Cardinality({i \in DOMAIN meta : meta[i].key = k})
MetaKeys == {"time", "time-wall", "max-rss", "csw-voluntary", "csw-forced",
             "status", "exitcode", "exitsig", "killed", "message"}
\* The run ended with the main loop reaping a child that terminated on its
\* own, and die() was never entered.
ReapedClean == Done /\ reaped_by = "keeper" /\ msg.code # "XX"
Overrun == \/ timeout # 0 /\ total_ms > timeout
           \/ wall_timeout # 0 /\ wall_ms > wall_timeout

\* C1: when the main loop reaps a child that terminated on its own and no
\* internal error occurs, the outcome follows the wait status: exit 0 without
\* overrun gives exit code 0 and no status line; exit N # 0 gives status:RE,
\* exitcode:N and exit code 1; death by signal N gives status:SG, exitsig:N
\* and exit code 1.
C1_OutcomeFromWaitStatus ==
  ReapedClean =>
    /\ (stat.kind = "exit" /\ stat.n = 0 /\ ~Overrun) =>
         (rc = 0 /\ ~HasKey("status"))
    /\ (stat.kind = "exit" /\ stat.n # 0) =>
         /\ rc = 1
         /\ ~Has("status", "TO")
         /\ metafile => (Has("status", "RE") /\ Has("exitcode", stat.n))
    /\ stat.kind = "signal" =>
         /\ rc = 1
         /\ metafile => (Has("status", "SG") /\ Has("exitsig", stat.n))

\* C1 witness: a child that exited 1 after overrunning the CPU limit was
\* reported as RE.
C1_Witness ==
  /\ ReapedClean /\ metafile
  /\ stat = [kind |-> "exit", n |-> 1]
  /\ timeout # 0 /\ total_ms > timeout
  /\ Has("status", "RE") /\ Has("exitcode", 1) /\ rc = 1

\* C2 as stated: whenever the child terminated on its own and a time is over
\* its limit at reaping, the run is status:TO with exit code 1.
C2_Original ==
  (ReapedClean /\ Overrun) => (rc = 1 /\ (metafile => Has("status", "TO")))

\* C2 amended: when the child exited with status 0 on its own, the run is
\* status:TO with exit code 1 if and only if the CPU time is above the CPU
\* limit or the wall time above the wall limit at reaping; a time equal to
\* the limit is no overrun (exit code 0, no status). A child that exited
\* non-zero or died of a signal is RE or SG even with an overrun.
C2_PostMortemTimeout ==
  (ReapedClean /\ stat.kind = "exit" /\ stat.n = 0) =>
    /\ Overrun => (rc = 1 /\ (metafile => Has("status", "TO")))
    /\ ~Overrun => (rc = 0 /\ ~HasKey("status"))

\* C2 witness: exit 0 with the CPU time over the limit was classified TO.
C2_Witness ==
  /\ ReapedClean /\ metafile /\ stat = [kind |-> "exit", n |-> 0]
  /\ timeout # 0 /\ total_ms > timeout
  /\ Has("status", "TO") /\ rc = 1

\* C3 as stated: every exit with code 2 while a meta-file is open leaves
\* status:XX and a message in it, and status:XX occurs only with exit code 2.
C3_Original ==
  /\ (Done /\ rc = 2 /\ metafile) => (Has("status", "XX") /\ HasKey("message"))
  /\ (Done /\ Has("status", "XX")) => rc = 2

\* C3 amended: every exit through die() in the keeper (an internal failure,
\* as opposed to a usage error, which also exits 2) has exit code 2 and, while
\* a meta-file is open, leaves status:XX and a message in it; status:XX
\* occurs only on runs that exit with code 2, and an exit with code 2 is either
\* such a failure or a usage error that wrote nothing.
C3_InternalFailure ==
  /\ (Done /\ msg.code = "XX") =>
       (rc = 2 /\ (metafile => (Has("status", "XX") /\ Has("message", msg.text))))
  /\ (Done /\ Has("status", "XX")) => rc = 2
  /\ (Done /\ rc = 2 /\ msg.code # "XX") => meta = << >>

\* C3 witness: a failed fork ended in die() with the meta-file open.
C3_Witness ==
  /\ Done /\ rc = 2 /\ metafile /\ box_pid = -1
  /\ Has("status", "XX") /\ Has("message", "clone")

\* C4: every key of the meta-file is written at most once in a run.
C4_KeysUnique == \A k \in MetaKeys : Count(k) <= 1

\* C5 as stated: with only a CPU limit set, a child that lives longer than
\* the limit in wall time with no CPU time used and exits 0 ends with exit
\* code 1, status:TO and time-wall >= limit.
C5_Original ==
  (/\ ReapedClean /\ timeout # 0 /\ wall_timeout = 0
   /\ stat = [kind |-> "exit", n |-> 0]
   /\ total_ms = 0 /\ wall_ms > timeout) =>
    (rc = 1 /\ (metafile => Has("status", "TO")))

\* The child was not interrupted and the keeper did not fail: it exited 0 on
\* its own or was killed by the keeper for a timeout.
SleepRun ==
  /\ Done /\ child = "reaped" /\ msg.code # "XX" /\ msg.text # "Interrupted"
  /\ \/ reaped_by = "keeper" /\ stat = [kind |-> "exit", n |-> 0]
     \/ reaped_by = "box_exit" /\ stat.kind = "signal"
  /\ total_ms = 0

\* C5 amended: with a wall limit set (-w), a child that lives longer than the
\* limit in wall time with no CPU time used ends with exit code 1, status:TO
\* and time-wall above the limit, whether it is killed at a timer check or
\* found over the limit after it exited 0; with only a CPU limit set (-t) such
\* a child is not timed out: exit code 0 and no status line.
C5_WallLimitTimesOut ==
  /\ (SleepRun /\ wall_timeout # 0 /\ wall_ms > wall_timeout) =>
       /\ rc = 1
       /\ metafile => (Has("status", "TO") /\
                       \E i \in DOMAIN meta : /\ meta[i].key = "time-wall"
                                              /\ meta[i].val > wall_timeout)
  /\ (SleepRun /\ wall_timeout = 0 /\ timeout # 0 /\ wall_ms > timeout) =>
       (rc = 0 /\ ~HasKey("status"))

\* C5 witness: with a wall limit, a child that exited 0 after the limit with
\* no CPU time used was classified TO.
C5_Witness ==
  /\ SleepRun /\ metafile /\ reaped_by = "keeper"
  /\ wall_timeout # 0 /\ wall_ms > wall_timeout
  /\ Has("status", "TO") /\ rc = 1

\* A step of check_timeout() that returned or called err().
CheckStep == pc = "check_timeout" /\ pc' \in {"err", "tick_clear"}

\* C6 as stated: at a timer check that finds the wall clock in order, the run
\* is ended exactly when the CPU time is beyond timeout plus extra_timeout.
C6_Original ==
  [][(CheckStep /\ timeout # 0 /\ ~WallOver(wall')) =>
       (pc' = "err" <=> cpu' > timeout + extra_timeout)]_vars

\* C6 amended: extra_timeout is an absolute threshold, not a grace added to
\* the limit: at a timer check that finds the wall clock in order, a child
\* whose CPU time is above timeout but not above extra_timeout is not killed
\* and the loop continues; the run is ended with status TO exactly when the
\* CPU time is above both timeout and extra_timeout.
C6_ExtraTimeoutAbsolute ==
  [][(CheckStep /\ timeout # 0 /\ ~WallOver(wall')) =>
       /\ pc' = "err" <=> (cpu' > timeout /\ cpu' > extra_timeout)
       /\ pc' = "err" => msg'.code = "TO"
       /\ pc' = "tick_clear" => (child' = child /\ kills' = kills)]_vars

\* C6 witness: a timer check has returned with the CPU time above timeout
\* and not above extra_timeout.
C6_Witness ==
  /\ pc = "tick_clear" /\ timeout # 0
  /\ cpu > timeout /\ cpu <= extra_timeout

C8_ChildSetupFailure ==
  (Done /\ reaped_by = "keeper" /\ nfatal = 0 /\ error_pipe # "") =>
    /\ rc = 2
    /\ ~Has("status", "RE") /\ ~HasKey("exitcode")
    /\ metafile => (Has("status", "XX") /\ Has("message", error_pipe))

\* C8 witness: a failed execve() was reported as status:XX.
C8_Witness ==
  /\ Done /\ reaped_by = "keeper" /\ nfatal = 0 /\ error_pipe = "execve"
  /\ stat = [kind |-> "exit", n |-> 2]
  /\ metafile /\ rc = 2 /\ Has("message", "execve")

\* C9: a timer or interrupt signal delivered while the keeper is blocked in
\* the wait4() of the main loop makes wait4() return: the keeper is never in
\* wait4() again before the loop has checked the flag that signal set.
C9_SignalNotLost ==
  /\ pc = "wait4" => blocked_sig = {}
  /\ "tick" \in blocked_sig => timer_tick = 1
  /\ "int" \in blocked_sig => interrupt # 0

\* C9 witness: a tick was delivered while the keeper was blocked in wait4()
\* with the child still running, and the loop is about to test timer_tick.
C9_Witness ==
  /\ pc = "tick" /\ nfatal = 0 /\ child = "running"
  /\ timer_tick = 1 /\ interrupt = 0 /\ blocked_sig = {"tick"}

(***************************************************************************)
(* Properties of judge-token                                               *)
(***************************************************************************)
Whitespace == {" ", "\t", "\r", "\n"}

\* The tokens of the bytes d[i..], cur being the token under way: the
\* maximal runs of non-whitespace bytes, with an empty token for every
\* newline when nl is set.
RECURSIVE Split(_, _, _, _)
Split(d, i, cur, nl) ==
  IF i > Len(d) THEN (IF cur = << >> THEN << >> ELSE << cur >>)
  ELSE IF d[i] \in Whitespace
  THEN (IF cur = << >> THEN << >> ELSE << cur >>)
       \o (IF nl /\ d[i] = "\n" THEN << << >> >> ELSE << >>)
       \o Split(d, i + 1, << >>, nl)
  ELSE Split(d, i + 1, Append(cur, d[i]), nl)
Words(d) == Split(d, 1, << >>, FALSE)
Marked(d) == Split(d, 1, << >>, TRUE)

JudgeDone == jpc = "done"
NoOptions == ~opts.ignore_nl /\ ~opts.ignore_trailing_nl /\ ~opts.ignore_case
             /\ ~opts.real_mode

\* C10 as stated: with no options, two inputs with the same sequence of
\* tokens that differ only in the whitespace between them are accepted, also
\* when only one of them ends with a newline.
C10_Original ==
  (/\ JudgeDone /\ NoOptions
   /\ Words(t1.data) # << >> /\ Words(t1.data) = Words(t2.data)) => jrc = 42

\* C10 amended: with no options, judge-token accepts (42) exactly the pairs of
\* inputs with the same sequence of tokens and the same newlines between and
\* after them, so inputs that differ only in the spaces, tabs and CRs between
\* tokens are accepted, while a newline that only one input has (such as the
\* final one of "1 2 3\n" against "1  2\t3") is rejected with 43; with -n it
\* accepts exactly the pairs with the same sequence of tokens, whatever the
\* whitespace.
C10_WhitespaceDifferences ==
  JudgeDone =>
    /\ NoOptions => (jrc = 42 <=> Marked(t1.data) = Marked(t2.data))
    /\ NoOptions => (jrc = 43 <=> Marked(t1.data) # Marked(t2.data))
    /\ (opts.ignore_nl /\ ~opts.ignore_case /\ ~opts.real_mode) =>
         (jrc = 42 <=> Words(t1.data) = Words(t2.data))

\* C10 witness: with no options, "1 1" against "1\t1" was accepted.
C10_Witness ==
  /\ JudgeDone /\ NoOptions /\ jrc = 42
  /\ t1.data = << "1", " ", "1" >> /\ t2.data = << "1", "\t", "1" >>

\* The bytes of its input that tokenizer t has not consumed yet, and the
\* tokens it would still return (a newline counts when report_lines is set).
Rest(t) == SubSeq(t.data, t.src.off - t.src.stop + t.src.pos + 1, Len(t.data))
Toks(t) == Split(Rest(t), 1, << >>, t.report_lines)

\* C11: when exactly one input is at its end at the head of the loop, the
\* judge terminates in that step; with -t it accepts if and only if all that
\* remains of the other input is whitespace and empty lines; otherwise it
\* rejects with "Ends too early" when the contestant's output (t1) is the one
\* that ended and with "Garbage at the end" when it is the longer one.
\* Without -t every remaining token, a line sentinel included, rejects.
C11_Step ==
  (jpc = "loop" /\ ((Toks(t1) = << >>) # (Toks(t2) = << >>))) =>
    /\ jpc' = "done"
    /\ LET first == Toks(t1) = << >>
           longer == IF first THEN t2 ELSE t1
       IN IF opts.ignore_trailing_nl /\ Words(Rest(longer)) = << >>
          THEN jrc' = 42
          ELSE /\ jrc' = 43
               /\ jmsg' = IF first THEN "Ends too early"
                          ELSE "Garbage at the end"
Compared == t1.ret = "token" /\ t2.ret = "token"
Matched == ~(jpc = "done" /\ jmsg = "Found, expected")
BothParse == to_double_ok(t1.token) /\ to_double_ok(t2.token)
SameString ==
  IF opts.ignore_case THEN UpperSeq(t1.token) = UpperSeq(t2.token)
  ELSE t1.token = t2.token
DMax(x, y) == IF DLess(x, y) THEN y ELSE x

C13_Reflexive == (JudgeDone /\ t1.data = t2.data) => jrc = 42

(***************************************************************************)
(* Properties of judge-shuffle                                             *)
(***************************************************************************)
\* The lines of an input, each the sequence of its words: a line ends at a
\* newline, the last line at the end of input when it has a word; with -n the
\* whole input is one line; with -e the lines without a word are left out.
RECURSIVE Group(_, _, _)
Group(toks, cur, acc) ==
  IF toks = << >> THEN (IF cur = << >> THEN acc ELSE Append(acc, cur))
  ELSE IF Head(toks) = << >> THEN Group(Tail(toks), << >>, Append(acc, cur))
  ELSE Group(Tail(toks), Append(cur, Head(toks)), acc)
HasWord(l) == l # << >>
InputLines(o, d) ==
  IF o.ignore_nl THEN (IF Words(d) = << >> THEN << >> ELSE << Words(d) >>)
  ELSE LET ls == Group(Marked(d), << >>, << >>)
       IN IF o.ignore_empty THEN SelectSeq(ls, HasWord) ELSE ls

\* How often x occurs in the sequence q; equality of two sequences as bags.
Occ(x, q) == Cardinality({i \in DOMAIN q : q[i] = x})
SameBag(p, q) ==
  /\ Len(p) = Len(q)
  /\ \A i \in DOMAIN p : Occ(p[i], p) = Occ(p[i], q)

\* The bytes of a file with the given lines: words separated by one space,
\* every line ended by a newline.
RECURSIVE JoinWords(_)
JoinWords(l) ==
  IF l = << >> THEN << >>
  ELSE IF Len(l) = 1 THEN l[1]
  ELSE l[1] \o << " " >> \o JoinWords(Tail(l))
RECURSIVE Render(_)
Render(ls) ==
  IF ls = << >> THEN << >>
  ELSE JoinWords(Head(ls)) \o << "\n" >> \o Render(Tail(ls))

\* The exit code of judge-shuffle with options o on the files f1 and f2.
ShufTokenizer(o, f) == [NewTokenizer(f) EXCEPT !.report_lines = ~o.ignore_nl]
VerdictOf(o, f1, f2) ==
  IF compare(read(o, ShufTokenizer(o, f1)).s,
             read(o, ShufTokenizer(o, f2)).s) = "ok" THEN 42 ELSE 43

\* C15: with -l (and without -w), judge-shuffle accepts if and only if the
\* two inputs contain the same multiset of lines.
C15_MultisetOfLines ==
  (JudgeDone /\ opts.shuffle_lines /\ ~opts.shuffle_words) =>
    (jrc = 42 <=> SameBag(InputLines(opts, t1.data), InputLines(opts, t2.data)))

\* The order of bytes, and an input with its lines (and, with -w, the words
\* of each line) put in that order.
ByteLess(a, b) == strcmp(a, b) < 0
LineLess(a, b) == strcmp(JoinWords(a), JoinWords(b)) < 0
Canon(o, d) ==
  Bind(InputLines(o, d), LAMBDA ls :
    Render(sort([i \in DOMAIN ls |->
                   IF o.shuffle_words THEN sort(ls[i], ByteLess) ELSE ls[i]],
                LineLess)))

CmpOrder(s) ==
  IF opts.shuffle_lines
  THEN sort(SelectSeq(s.lines, LAMBDA l : l.orig_line # 0), line_less)
  ELSE SubSeq(s.lines, 1, s.num_lines)
TokensOf(l) == [i \in DOMAIN l.toks |-> l.toks[i].token]

\* C17: with equally many lines on both sides, judge-shuffle accepts when no
\* line differs from its counterpart, and otherwise rejects with "Line <n>
\* does not match", n being the position in the contestant's input of the
\* contestant's line at the first index where the lines differ.
C17_FirstMismatch ==
  (JudgeDone /\ s1.num_lines = s2.num_lines) =>
    LET A == CmpOrder(s1)
        B == CmpOrder(s2)
        D == {i \in DOMAIN A : TokensOf(A[i]) # TokensOf(B[i])}
        In == InputLines(opts, t1.data)
    IN IF D = {} THEN jrc = 42
       ELSE /\ jrc = 43 /\ jmsg = "Line does not match"
            /\ jline \in DOMAIN In
            /\ IF opts.shuffle_words
               THEN SameBag(In[jline], TokensOf(A[FirstOf(D)]))
               ELSE In[jline] = TokensOf(A[FirstOf(D)])

\* C18: with -e the verdict is the verdict on the two inputs with their
\* empty lines removed, so lines without a word, wherever they stand, do not
\* change it.
C18_BlankLinesIgnored ==
  (JudgeDone /\ opts.ignore_empty) =>
    jrc = VerdictOf(opts, Render(InputLines(opts, t1.data)),
                    Render(InputLines(opts, t2.data)))

\* C18 witness: with -e, "\n1\n" against "1" was accepted.
C18_Witness ==
  /\ JudgeDone /\ jrc = 42 /\ opts.ignore_empty /\ ~opts.ignore_nl
  /\ t1.data = << "\n", "1", "\n" >> /\ t2.data = << "1" >>

\* An input whose last line has a word and no newline, with the newline added.
Terminated(d) ==
  IF d # << >> /\ d[Len(d)] \notin Whitespace THEN Append(d, "\n") ELSE d
EndsLine(tb) == tb.toks = << >> \/ tb.toks[Len(tb.toks)] = << >>

\* C19: after read() the token buffer of each input is empty or ends with a
\* line sentinel, and the verdict is the verdict on the two inputs with the
\* final newline added where the last line lacks it.
C19_LastLineTerminated ==
  /\ jpc \in {"compare", "done"} => (EndsLine(s1.tb) /\ EndsLine(s2.tb))
  /\ JudgeDone =>
       jrc = VerdictOf(opts, Terminated(t1.data), Terminated(t2.data))

\* C19 witness: "1" without a final newline against "1\n" with one: both
\* token buffers end with the sentinel and the judge accepted.
C19_Witness ==
  /\ JudgeDone /\ jrc = 42 /\ ~opts.ignore_nl
  /\ t1.data = << "1" >> /\ t2.data = << "1", "\n" >>
  /\ s1.tb.toks = << << "1" >>, << >> >> /\ s2.tb = s1.tb

C20_Step ==
  jpc = "tokens" =>
    LET T == Toks(t1)
    IN IF T = << >>
       THEN t1'.ret = "NULL" /\ Rest(t1') = << >>
       ELSE /\ t1'.ret = "token" /\ t1'.token = Head(T)
            /\ t1'.toksize = Len(Head(T))
            /\ Toks(t1') = Tail(T)
            /\ \A i \in DOMAIN t1'.token : t1'.token[i] \notin Whitespace
C20_MaximalRuns == [][C20_Step]_vars

\* C20 witness: from "\t1\r" the token "1" was returned, cut at the tab and
\* at the carriage return.
C20_Witness ==
  /\ jpc = "tokens" /\ t1.ret = "token" /\ t1.token = << "1" >>
  /\ t1.data = << "\t", "1", "\r" >>

\* The bytes of the input consumed so far: those before the read cursor.
Consumed(t) == SubSeq(t.data, 1, t.src.off - t.src.stop + t.src.pos)
NumLF(q) == Cardinality({i \in DOMAIN q : q[i] = "\n"})
Blank(q) == \A i \in DOMAIN q : q[i] \in {" ", "\t", "\r"}

\* C21: with report_lines on, a call of get_token that consumes an LF byte
\* consumes nothing after it and only spaces, tabs and CRs before it, and
\* returns the empty token (toksize 0); a call that returns a non-empty token
\* or the end-of-input value consumes no LF byte, so the empty tokens are one
\* for each LF byte, in input order relative to the other tokens; after every
\* call the line counter is 1 plus the number of LF bytes consumed so far.
C21_Step ==
  (jpc = "tokens" /\ t1.report_lines) =>
    LET n == Len(Consumed(t1))
        m == Len(Consumed(t1'))
        chunk == SubSeq(t1.data, n + 1, m)
    IN /\ t1'.line = 1 + NumLF(Consumed(t1'))
       /\ m >= n
       /\ IF NumLF(chunk) > 0
          THEN /\ chunk[Len(chunk)] = "\n"
               /\ Blank(SubSeq(chunk, 1, Len(chunk) - 1))
               /\ t1'.ret = "token" /\ t1'.toksize = 0 /\ t1'.token = << >>
          ELSE \/ /\ t1'.ret = "token" /\ t1'.toksize > 0
                  /\ Len(chunk) >= t1'.toksize
                  /\ Blank(SubSeq(chunk, 1, Len(chunk) - t1'.toksize))
                  /\ t1'.token
                       = SubSeq(chunk, Len(chunk) - t1'.toksize + 1, Len(chunk))
               \/ /\ t1'.ret = "NULL" /\ Blank(chunk) /\ m = Len(t1.data)
C21_LineSentinels == [][C21_Step]_vars

\* C21 witness: from "1\n2" read one byte at a time, the LF that ended "1"
\* was pushed back and then returned as the empty token of line 1.
C21_Witness ==
  /\ jpc = "tokens" /\ t1.report_lines /\ t1.src.rd = 1
  /\ t1.data = << "1", "\n", "2" >>
  /\ t1.ret = "token" /\ t1.toksize = 0 /\ t1.line = 2

(***************************************************************************)
(* judge-shuffle: the token buffer and its pages (judge-shuffle.cc)        *)
(***************************************************************************)
TOKBUF_PAGE == 65536
\* Number of tokens appended to a token buffer of the model.
MaxToks == 3

\* A token is given by the lengths of its runs of non-zero bytes, which its
\* zero bytes separate: << 3 >> is a token of three bytes, << 0 >> the empty
\* token, << 1, 1 >> a byte, a zero byte and a byte, << 0, 0 >> one zero byte.
RECURSIVE SumLens(_)
SumLens(q) == IF q = << >> THEN 0 ELSE Head(q) + SumLens(Tail(q))
ToksizeOf(tok) == SumLens(tok) + Len(tok) - 1

\* The tokens handed to the buffer: the empty token, short tokens, a token
\* of a fifth of a page, a token nearly as large as a page, and tokens with
\* a zero byte, which get_token() returns when the input has one.
TokShapes ==
  { << 0 >>, << 1 >>, << TOKBUF_PAGE \div 5 - 1 >>, << TOKBUF_PAGE - 5536 >>,
    << 0, 0 >>, << 1, 1 >> }

\* new tokbuf.
NewTokbuf ==
  [state |-> "open", pages |-> << >>, num_tokens |-> 0, num_lines |-> 0,
   this_page |-> 0, read_pos |-> 0, added |-> << >>, got |-> << >>]

\* The strings memcpy() lays down for the token number n: each run, followed
\* by a zero byte.
Strings(tok, n) == [k \in DOMAIN tok |-> [tok |-> n, seg |-> k, len |-> tok[k]]]

\* tokbuf::add_token(token, l): l + 1 bytes are copied to the last page, or
\* to a new page when they do not fit; a new page holds TOKBUF_PAGE bytes, or
\* just the token when that is more than a fifth of TOKBUF_PAGE.
tokbuf_add_token(tb, tok) ==
  LET l == ToksizeOf(tok) + 1
      n == Len(tb.pages)
      fits == n > 0 /\ tb.pages[n].end - tb.pages[n].pos >= l
      size == IF l > TOKBUF_PAGE \div 5 THEN l ELSE TOKBUF_PAGE
      pgs == IF fits THEN tb.pages
             ELSE Append(IF n > 0
                         THEN [tb.pages EXCEPT ![n].end = tb.pages[n].pos]
                         ELSE tb.pages,
                         [pos |-> 0, end |-> size, strs |-> << >>])
      m == Len(pgs)
  IN [tb EXCEPT
        !.pages = [pgs EXCEPT ![m].pos = @ + l,
                              ![m].strs = @ \o Strings(tok, tb.num_tokens + 1)],
        !.num_tokens = @ + 1,
        !.num_lines = IF l = 1 THEN @ + 1 ELSE @,
        !.added = Append(@, tok)]

\* tokbuf::close(): the last page ends where it has been filled to.
tokbuf_close(tb) ==
  LET n == Len(tb.pages)
  IN [tb EXCEPT !.state = "closed",
                !.pages = IF n > 0 THEN [@ EXCEPT ![n].end = tb.pages[n].pos]
                          ELSE @]

\* Offset in its page of the k-th string, and the string at an offset.
RECURSIVE OffsetOf(_, _)
OffsetOf(strs, k) ==
  IF k <= 1 THEN 0 ELSE OffsetOf(strs, k - 1) + strs[k - 1].len + 1
StringAt(pg, off) == pg.strs[CHOOSE k \in DOMAIN pg.strs : OffsetOf(pg.strs, k) = off]

\* tokbuf::get_first(): the string at the start of the first page, or NULL.
tokbuf_get_first(tb) ==
  IF tb.pages = << >> THEN [tb EXCEPT !.state = "done"]
  ELSE [tb EXCEPT !.state = "reading", !.this_page = 1, !.read_pos = 0,
                  !.got = Append(@, StringAt(tb.pages[1], 0))]

\* tokbuf::get_next(): read_pos moves over the string (strlen) and its zero
\* byte; at the end of the page the next page is taken, NULL after the last.
tokbuf_get_next(tb) ==
  LET pg == tb.pages[tb.this_page]
      pos == tb.read_pos + StringAt(pg, tb.read_pos).len + 1
  IN IF pos >= pg.end
     THEN IF tb.this_page = Len(tb.pages) THEN [tb EXCEPT !.state = "done"]
          ELSE [tb EXCEPT !.this_page = @ + 1, !.read_pos = 0,
                          !.got = Append(@, StringAt(tb.pages[tb.this_page + 1], 0))]
     ELSE [tb EXCEPT !.read_pos = pos, !.got = Append(@, StringAt(pg, pos))]

\* slurp(): tb = new tokbuf.
TbNew ==
  /\ tbuf.state = "none"
  /\ tbuf' = NewTokbuf
  /\ UNCHANGED <<jpc, opts, t1, t2, jrc, jmsg, shufvars, io, boxvars, cmdvars>>

\* slurp(): tb->add_token(token, tizer->toksize).
TbAddToken ==
  /\ tbuf.state = "open" /\ tbuf.num_tokens < MaxToks
  /\ \E tok \in TokShapes : tbuf' = tokbuf_add_token(tbuf, tok)
  /\ UNCHANGED <<jpc, opts, t1, t2, jrc, jmsg, shufvars, io, boxvars, cmdvars>>

\* slurp(): tb->close().
TbClose ==
  /\ tbuf.state = "open"
  /\ tbuf' = tokbuf_close(tbuf)
  /\ UNCHANGED <<jpc, opts, t1, t2, jrc, jmsg, shufvars, io, boxvars, cmdvars>>

\* read(): x = tb->get_first().
TbGetFirst ==
  /\ tbuf.state = "closed"
  /\ tbuf' = tokbuf_get_first(tbuf)
  /\ UNCHANGED <<jpc, opts, t1, t2, jrc, jmsg, shufvars, io, boxvars, cmdvars>>

\* read(): x = tb->get_next().
TbGetNext ==
  /\ tbuf.state = "reading"
  /\ tbuf' = tokbuf_get_next(tbuf)
  /\ UNCHANGED <<jpc, opts, t1, t2, jrc, jmsg, shufvars, io, boxvars, cmdvars>>

NextTokbuf == TbNew \/ TbAddToken \/ TbClose \/ TbGetFirst \/ TbGetNext
SpecTokbuf == Init /\ [][NextTokbuf]_vars

(***************************************************************************)
(* judge-shuffle: read() from the tokenizer to the two vectors             *)
(***************************************************************************)
\* The token as add_token() and get_next() see it: the lengths of its runs
\* of non-zero bytes.
RECURSIVE ShapeOf(_)
ShapeOf(tok) ==
  LET Z == {i \in DOMAIN tok : tok[i] = NUL}
  IN IF Z = {} THEN << Len(tok) >>
     ELSE Bind(CHOOSE i \in Z : \A k \in Z : i <= k, LAMBDA z :
            << z - 1 >> \o ShapeOf(SubSeq(tok, z + 1, Len(tok))))

\* The locals and members read() works with: nl of slurp(); the sizes of the
\* vectors toks and lines; t and l as indices into them; ltoks, the value
\* last stored to l->toks; num_lines; overrun, TRUE once an element was
\* written that the vector does not have.
NoReader ==
  [nl |-> TRUE, t |-> 0, l |-> 0, ltoks |-> 0, num_lines |-> 0,
   toks_size |-> 0, lines_size |-> 0, overrun |-> FALSE]

\* Inputs of read(): files of up to MaxLen bytes over a token byte, the zero
\* byte, the space and the newline, under every option set.
ReadBytes == {"1", NUL, " ", "\n"}
ReadFiles == SeqsUpTo(ReadBytes, MaxLen)

\* main() up to s1.read(&t1).
ReadInit ==
  /\ jpc = "slurp_new"
  /\ opts \in ShufOptionSets
  /\ \E f \in ReadFiles :
       t1 = [NewTokenizer(f) EXCEPT !.report_lines = ~opts.ignore_nl]
  /\ t2 = NewTokenizer(<< >>)
  /\ s1 = NoReader /\ s2 = NoShuffler /\ jline = 0
  /\ jrc = 0 /\ jmsg = ""

\* slurp(): tb = new tokbuf; nl = true.
SlurpNew ==
  /\ jpc = "slurp_new"
  /\ tbuf' = NewTokbuf
  /\ s1' = [s1 EXCEPT !.nl = TRUE]
  /\ jpc' = "slurp"
  /\ UNCHANGED <<opts, t1, t2, jrc, jmsg, s2, jline, io, boxvars, cmdvars>>

\* slurp(), one round of the loop: token[0] decides between a word and a
\* line end; an empty line is skipped with -e; the token goes to the buffer
\* with its toksize.
SlurpToken ==
  /\ jpc = "slurp"
  /\ LET u == get_token(t1)
         word == u.token # << >> /\ u.token[1] # NUL
         skip == ~word /\ ~opts.ignore_nl /\ s1.nl /\ opts.ignore_empty
     IN /\ u.ret = "token"
        /\ t1' = u
        /\ s1' = [s1 EXCEPT !.nl = IF word THEN FALSE
                                   ELSE IF ~opts.ignore_nl THEN TRUE ELSE @]
        /\ tbuf' = IF skip THEN tbuf ELSE tokbuf_add_token(tbuf, ShapeOf(u.token))
  /\ UNCHANGED <<jpc, opts, t2, jrc, jmsg, s2, jline, io, boxvars, cmdvars>>

\* slurp(), after the loop: if (!nl) tb->add_token("", 0); tb->close().
SlurpEnd ==
  /\ jpc = "slurp"
  /\ LET u == get_token(t1)
     IN u.ret = "NULL" /\ t1' = u
  /\ tbuf' = tokbuf_close(IF ~s1.nl THEN tokbuf_add_token(tbuf, << 0 >>) ELSE tbuf)
  /\ jpc' = "resize"
  /\ UNCHANGED <<opts, t2, jrc, jmsg, shufvars, io, boxvars, cmdvars>>

\* read(): both vectors are sized, t and l point to their starts,
\* l->toks = t, num_lines = 0, x = tb->get_first().
ReadResize ==
  /\ jpc = "resize"
  /\ s1' = [s1 EXCEPT !.toks_size = tbuf.num_tokens,
                      !.lines_size = tbuf.num_lines + 1,
                      !.t = 0, !.l = 0, !.ltoks = 0, !.num_lines = 0]
  /\ tbuf' = tokbuf_get_first(tbuf)
  /\ jpc' = "loop"
  /\ UNCHANGED <<opts, t1, t2, jrc, jmsg, s2, jline, io, boxvars, cmdvars>>

\* read(), one round of the loop with the string x: a word is stored to *t,
\* an empty string ends the line *l and starts the next one at l + 1; then
\* x = tb->get_next().
ReadString ==
  /\ jpc = "loop" /\ tbuf.state = "reading"
  /\ LET x == tbuf.got[Len(tbuf.got)]
     IN s1' = IF x.len > 0
              THEN [s1 EXCEPT !.overrun = @ \/ s1.t >= s1.toks_size,
                              !.t = @ + 1]
              ELSE [s1 EXCEPT !.overrun = @ \/ s1.l + 1 >= s1.lines_size,
                              !.num_lines = @ + 1, !.l = @ + 1,
                              !.ltoks = s1.t]
  /\ tbuf' = tokbuf_get_next(tbuf)
  /\ UNCHANGED <<jpc, opts, t1, t2, jrc, jmsg, s2, jline, io, boxvars, cmdvars>>

\* read(), after the loop: assert(l->toks == t); assert(num_lines ==
\* tb->num_lines); a failed assertion aborts the program.
ReadAssert ==
  /\ jpc = "loop" /\ tbuf.state = "done"
  /\ IF s1.ltoks = s1.t /\ s1.num_lines = tbuf.num_lines
     THEN jpc' = "read_done" /\ UNCHANGED <<jrc, jmsg>>
     ELSE JudgeExit(134, "Assertion failed")
  /\ UNCHANGED <<opts, t1, t2, shufvars, libvars, boxvars, cmdvars>>

\* A write beyond a vector has damaged the heap: the program may go on, or
\* the allocator or the kernel ends it at any later point.
ReadCrash ==
  /\ jpc = "loop" /\ s1.overrun
  /\ JudgeExit(134, "malloc(): corrupted top size")
  /\ UNCHANGED <<opts, t1, t2, shufvars, libvars, boxvars, cmdvars>>

InitRead == BoxInit /\ ReadInit
NextRead ==
  \/ SlurpNew \/ SlurpToken \/ SlurpEnd \/ ReadResize \/ ReadString
  \/ ReadAssert \/ ReadCrash
SpecRead == InitRead /\ [][NextRead]_vars

(***************************************************************************)
(* Properties of the command line and of the child's setup                 *)
(***************************************************************************)
Executed == "execve" \in {inside.steps[i] : i \in DOMAIN inside.steps}
Names(e, v) == Len(e) > 1 /\ e[1] = v /\ e[2] = "="
EntriesOf(env, v) == SelectSeq(env, LAMBDA e : Names(e, v))
RulesOf(v) == SelectSeq(cfg.rules, LAMBDA r : r.var = << v >>)

\* C22 as stated: the environment passed to the executed command contains
\* LIBC_FATAL_STDERR_=1 whatever the user's -E rules are, with and without -e.
C22_Original ==
  Executed =>
    \E i \in DOMAIN inside.env : inside.env[i] = << LIBC_FATAL_STDERR_, "=", "1" >>

\* C22: the built-in rule is applied before the user's rules. With no -E rule
\* that names LIBC_FATAL_STDERR_ the environment passed to the command holds
\* LIBC_FATAL_STDERR_=1, with and without -e; otherwise the last rule that
\* names it decides: VAR=VAL sets the value, VAR= leaves the variable unset,
\* and VAR passes the parent's entry if the parent has one.
C22_BuiltinRuleFirst ==
  Executed =>
    LET mine == EntriesOf(inside.env, LIBC_FATAL_STDERR_)
        user == RulesOf(LIBC_FATAL_STDERR_)
        last == user[Len(user)]
        parent == EntriesOf(inside.environ, LIBC_FATAL_STDERR_)
    IN IF user = << >> THEN mine = << << LIBC_FATAL_STDERR_, "=", "1" >> >>
       ELSE IF last.has_val /\ last.val # << >>
       THEN mine = << << LIBC_FATAL_STDERR_, "=" >> \o last.val >>
       ELSE IF last.has_val THEN mine = << >>
       ELSE mine = SubSeq(parent, 1, Min(1, Len(parent)))

\* C22 witness: with -e and -E LIBC_FATAL_STDERR_=0 the command was executed
\* with LIBC_FATAL_STDERR_=0 in its environment.
C22_Witness ==
  /\ Executed /\ cfg.pass_environ = 1
  /\ RulesOf(LIBC_FATAL_STDERR_) # << >>
  /\ EntriesOf(inside.env, LIBC_FATAL_STDERR_) = << << LIBC_FATAL_STDERR_, "=", "0" >> >>

Parsed == args'.optind # args.optind
Given(c) == c \in args.given
NoFork == box_pid = 0 /\ child = "none"

\* C23: an option -r FILE sets the stderr file and clears the stderr-to-stdout
\* flag, --stderr-to-stdout sets the flag and discards the file, and nothing
\* else changes either, so the one given last is in effect and the two are
\* never both set; the executed command has on fd 2 the file of -r, or what
\* its fd 1 is with --stderr-to-stdout, or the supervisor's stderr.
C23_Step ==
  LET c == getopt_long(args'.tok)
  IN /\ ~(cfg'.redir_stderr # << >> /\ cfg'.redir_stderr_to_stdout # 0)
     /\ IF Parsed /\ c = "r"
        THEN cfg'.redir_stderr = args'.tok.arg /\ cfg'.redir_stderr_to_stdout = 0
        ELSE IF Parsed /\ c = "OPT_STDERR_TO_STDOUT"
        THEN cfg'.redir_stderr = << >> /\ cfg'.redir_stderr_to_stdout = 1
        ELSE /\ cfg'.redir_stderr = cfg.redir_stderr
             /\ cfg'.redir_stderr_to_stdout = cfg.redir_stderr_to_stdout
     /\ Executed' =>
          inside'.fds[3] = IF cfg.redir_stderr # << >> THEN cfg.redir_stderr
                           ELSE IF cfg.redir_stderr_to_stdout # 0
                           THEN inside'.fds[2] ELSE "2"
C23_LastStderrOption == [][C23_Step]_vars

\* C23 witness: -r FILE and --stderr-to-stdout were both given, the flag is
\* what is in effect, and the command runs with fd 2 the same as fd 1.
C23_Witness ==
  /\ Given("r") /\ Given("OPT_STDERR_TO_STDOUT") /\ Executed
  /\ cfg.redir_stderr = << >> /\ cfg.redir_stderr_to_stdout = 1
  /\ inside.fds[3] = "1"

\* C24 as stated: with both commands or with neither the supervisor prints
\* the usage text and exits 2 without forking; with --version alone it exits
\* 0 without forking.
C24_Original ==
  LET both == Given("OPT_RUN") /\ Given("OPT_VERSION")
      neither == ~Given("OPT_RUN") /\ ~Given("OPT_VERSION")
  IN /\ both => NoFork
     /\ (pc = "exited" /\ (both \/ neither)) =>
          NoFork /\ rc = 2 /\ printed = "usage"
     /\ args.given = {"OPT_VERSION"} =>
          NoFork /\ (pc = "exited" => rc = 0 /\ printed = "version")

\* C24: with both commands or with neither the supervisor exits 2 without
\* forking, and it has printed the usage text unless a -M whose file could
\* not be opened ended the run first with die(); with --version alone it
\* prints the version and exits 0 without forking.
C24_ExactlyOneMode ==
  LET both == Given("OPT_RUN") /\ Given("OPT_VERSION")
      neither == ~Given("OPT_RUN") /\ ~Given("OPT_VERSION")
  IN /\ both => NoFork
     /\ (pc = "exited" /\ (both \/ neither)) =>
          /\ NoFork /\ rc = 2
          /\ IF msg = NoMsg THEN printed = "usage"
             ELSE /\ printed = "" /\ msg.text = "Failed to open metafile"
                  /\ Given("M")
     /\ args.given = {"OPT_VERSION"} =>
          NoFork /\ (pc = "exited" => rc = 0 /\ printed = "version")

\* C24 witness: --run and --version were both given and the supervisor has
\* exited 2 with the usage text.
C24_Witness ==
  /\ Given("OPT_RUN") /\ Given("OPT_VERSION")
  /\ pc = "exited" /\ rc = 2 /\ printed = "usage" /\ NoFork

\* The other form of an option that has a short and a long form.
Twin(tok) ==
  IF tok.form = "long"
  THEN [tok EXCEPT !.form = "short", !.name = LongOpts[tok.name]]
  ELSE [tok EXCEPT !.form = "long",
                   !.name = CHOOSE n \in DOMAIN LongOpts : LongOpts[n] = tok.name]
HasBothForms(tok) ==
  \/ tok.form = "long" /\ tok.name \in DOMAIN LongOpts
                       /\ LongOpts[tok.name] \notin {"OPT_RUN", "OPT_VERSION",
                                                     "OPT_STDERR_TO_STDOUT"}
  \/ tok.form = "short" /\ \E n \in DOMAIN LongOpts : LongOpts[n] = tok.name

\* C25: an option of the table is taken the same way in its short and in its
\* long form; -f KB and --fsize=KB both set the file-size limit to KB and let
\* the option loop go on, and the command then runs with RLIMIT_FSIZE of
\* KB * 1024 bytes.
C25_Step ==
  /\ (Parsed /\ HasBothForms(args'.tok)) =>
       /\ getopt_long(args'.tok) = getopt_long(Twin(args'.tok))
       /\ args'.tok.name \in {"f", "fsize"} =>
            pc' = "main" /\ cfg'.fsize_limit = atoi(args'.tok.arg)
  /\ (Executed' /\ cfg.fsize_limit # 0) =>
       \E i \in DOMAIN inside'.rlim :
         inside'.rlim[i] = << "RLIMIT_FSIZE", cfg.fsize_limit * 1024 >>
C25_ShortAndLongForms == [][C25_Step]_vars

\* The place of a step of the child in the order C30 gives; 0 for a step it
\* does not name.
Rank(s) ==
  CASE s = "close_error_pipe" -> 1 [] s = "reset_signals" -> 2
    [] s = "setpgrp" -> 3 [] s = "open_stdin" -> 4 [] s = "open_stdout" -> 5
    [] s = "open_stderr" -> 6 [] s = "dup2_stdout_stderr" -> 7
    [] s \in {"RLIMIT_AS", "RLIMIT_FSIZE", "RLIMIT_STACK", "RLIMIT_NOFILE",
              "RLIMIT_MEMLOCK", "RLIMIT_NPROC"} -> 8
    [] s = "setup_environment" -> 9 [] s = "chdir" -> 10 [] s = "execve" -> 11
    [] OTHER -> 0
DidIn(st, s) == \E i \in DOMAIN st.steps : st.steps[i] = s
Did(s) == DidIn(inside, s)
Wanted(s) ==
  CASE s = "open_stdin" -> cfg.redir_stdin # << >>
    [] s = "open_stdout" -> cfg.redir_stdout # << >>
    [] s = "open_stderr" -> cfg.redir_stderr # << >>
    [] s = "dup2_stdout_stderr" -> cfg.redir_stderr_to_stdout = 1
    [] s = "chdir" -> cfg.set_cwd # << >>
    [] s = "RLIMIT_NPROC" -> cfg.max_processes > 0
    [] s = "RLIMIT_AS" -> cfg.memory_limit # 0
    [] s = "RLIMIT_FSIZE" -> cfg.fsize_limit # 0
    [] OTHER -> TRUE
AllSteps == {InsideOrder[i] : i \in DOMAIN InsideOrder}

\* C30: the child's steps are taken in the order close the read end of the
\* error pipe, default signal handlers, setpgrp, stdin, stdout, stderr,
\* stderr-to-stdout, rlimits, environment, chdir, exec: a step is taken once,
\* after no step that comes later in this order, and only when every step
\* wanted before it has been done. A step that fails is the child's last: the
\* child has written to the error pipe and exited 2 without executing the
\* command, and it takes no step afterwards.
EarlierDone(s) ==
  \A u \in AllSteps : (Rank(u) # 0 /\ Rank(u) < Rank(s) /\ Wanted(u)) => Did(u)
C30_Step ==
  /\ inside'.steps # inside.steps =>
       LET s == inside'.steps[Len(inside'.steps)]
       IN /\ inside'.steps = Append(inside.steps, s)
          /\ child = "setup" /\ ~Executed
          /\ child' = IF s = "execve" THEN "running" ELSE "setup"
          /\ Rank(s) # 0 =>
               /\ \A i \in DOMAIN inside.steps :
                    /\ Rank(inside.steps[i]) <= Rank(s)
                    /\ inside.steps[i] # s
               /\ Wanted(s) /\ EarlierDone(s)
  /\ (child' = "zombie" /\ child = "setup") =>
       /\ error_pipe' \in AllSteps /\ Rank(error_pipe') # 0
       /\ stat' = [kind |-> "exit", n |-> 2]
       /\ inside' = inside /\ ~Executed
       /\ ~Did(error_pipe') /\ Wanted(error_pipe') /\ EarlierDone(error_pipe')
  /\ child = "zombie" => inside' = inside /\ child' = "zombie"
C30_SetupOrder == [][C30_Step]_vars

\* C30 witness: with -c DIR the chdir failed after the environment was built:
\* the child has exited 2 with the error on the pipe and without the exec.
C30_Witness ==
  /\ child = "zombie" /\ error_pipe = "chdir" /\ stat = [kind |-> "exit", n |-> 2]
  /\ Did("setup_environment") /\ ~Executed

(***************************************************************************)
(* Properties of the buffered stream                                       *)
(***************************************************************************)
\* C26 as stated: after every operation on a stream, read or written, the
\* cursors satisfy buf <= pos <= stop <= end.
C26_Original ==
  io.mode \in {"read", "write"} =>
    0 <= io.s.pos /\ io.s.pos <= io.s.stop /\ io.s.stop <= io.s.end

\* C26: after every operation on a stream that is read (open, getc, peekc,
\* ungetc, flush) the cursors satisfy buf <= pos <= stop <= end; on a stream
\* that is written (open, putc, flush) stop stays at buf and
\* buf <= pos <= end, pos being the number of bytes not yet flushed.
C26_Cursors ==
  /\ io.mode = "read" =>
       0 <= io.s.pos /\ io.s.pos <= io.s.stop /\ io.s.stop <= io.s.end
  /\ io.mode = "write" =>
       io.s.stop = 0 /\ 0 <= io.s.pos /\ io.s.pos <= io.s.end

\* C26 witness: a written stream after two putc() calls: pos is beyond stop.
C26_Witness ==
  io.mode = "write" /\ io.s.pos = 2 /\ io.s.stop = 0 /\ io.s.pos > io.s.stop

(***************************************************************************)
(* Properties of the token buffer                                          *)
(***************************************************************************)
\* C27: once a closed token buffer has been iterated to the end, get_first
\* and get_next have yielded exactly the appended tokens, each once and whole,
\* in insertion order; num_tokens is the number of tokens yielded and
\* num_lines the number of empty tokens yielded.
C27_IterationYieldsTokens ==
  tbuf.state = "done" =>
    /\ Len(tbuf.got) = Len(tbuf.added)
    /\ \A i \in DOMAIN tbuf.got :
         /\ i <= Len(tbuf.added)
         /\ tbuf.got[i].tok = i
         /\ tbuf.got[i].len = ToksizeOf(tbuf.added[i])
    /\ tbuf.num_tokens = Len(tbuf.got)
    /\ tbuf.num_lines = Cardinality({i \in DOMAIN tbuf.got : tbuf.got[i].len = 0})

(***************************************************************************)
(* Properties of the keeper: interrupts and the wall-time limit            *)
(***************************************************************************)
\* C29: an interrupt signal delivered to the keeper after the handlers are
\* installed and before the child is reaped always ends the run as
\* interrupted: the wait4() of the main loop never hands the child's own
\* status to the keeper while the interrupt flag is set, whatever the moment
\* the handler ran, the gap between the flag check and wait4() included.
C29_Step == (pc = "wait4" /\ pc' = "reaped") => interrupt = 0
C29_InterruptEndsRun == [][C29_Step]_vars

\* The steps of the keeper process itself, from box_keeper() to exit().
KeeperStep ==
  \/ KeeperStart \/ LoopInterrupt \/ LoopTick \/ CheckTimeout \/ TickClear
  \/ Wait4Reap \/ ReadErrorPipe \/ ClassifyExited \/ ClassifySignaled
  \/ ErrStatus \/ ErrMessage \/ DieKill \/ DieMeta
  \/ BoxExitKill \/ BoxExitWait \/ BoxExitClose

\* A timer check that reads a later wall clock than the check before it:
\* alarm(1) is re-armed by the handler, so a second lies between two ticks.
ClockAdvances == CheckTimeout /\ wall' > wall

\* The run of minibox under a fair scheduler: the keeper is not starved,
\* SIGALRM is delivered while the alarm is armed, SIGKILL ends the child, and
\* the wall clock moves on from one timer check to a later one.
NextLive ==
  \/ MainRun \/ RunFork \/ KeeperStep
  \/ ChildSetupFails \/ ChildExec \/ ChildExits \/ ChildSignaled \/ ChildKilled
  \/ SigAlarm \/ SigInterrupt

SpecLive ==
  /\ Init /\ [][NextLive]_vars
  /\ WF_vars(KeeperStep)
  /\ WF_vars(SigAlarm)
  /\ WF_vars(ChildKilled)
  /\ SF_vars(ClockAdvances)

\* The keeper is in its loop with a wall-time limit and the alarm armed.
WallLimited == pc = "loop" /\ wall_timeout # 0 /\ alarm_armed

\* Something else than the wall clock ended or disturbed the run: the child
\* terminated on its own, the keeper received an interrupt or a fatal signal,
\* or the CPU limit or a failed read of /proc ended the run first.
OtherEnd ==
  \/ stat.kind = "exit"
  \/ stat.kind = "signal" /\ stat.n # SIGKILL
  \/ interrupt # 0
  \/ nfatal > 0
  \/ msg.text \in {"Time limit exceeded", "proc stat"}

\* The run has ended for the wall clock: found above the limit at a timer
\* check, the child killed and reaped by box_exit(), exit code 1.
WallTimedOut ==
  /\ pc = "exited" /\ rc = 1
  /\ msg = [code |-> "TO", text |-> "Time limit exceeded (wall clock)"]
  /\ wall > wall_timeout
  /\ kills # {} /\ child = "reaped" /\ reaped_by = "box_exit"
  /\ stat = [kind |-> "signal", n |-> SIGKILL]
  /\ metafile => (Has("status", "TO") /\ Has("killed", 1))

\* C28: with a wall-time limit set, timer ticks delivered and a child that
\* never terminates on its own, the keeper eventually finds the wall time
\* above the limit at a timer check, kills the child and exits with code 1,
\* with status:TO and killed:1 in the meta-file.
C28_WallLimitEnds == WallLimited ~> (WallTimedOut \/ OtherEnd)

\* C28 witness: such a run has ended: no own termination of the child, no
\* signal but SIGALRM, and the meta-file holds status:TO and killed:1.
C28_Witness ==
  /\ WallTimedOut /\ ~OtherEnd /\ metafile
  /\ Has("status", "TO") /\ Has("killed", 1)

(***************************************************************************)
(* Properties of the environment rules                                     *)
(***************************************************************************)
EnvVars == { << LIBC_FATAL_STDERR_ >>, << OtherVar >>, LongerVar }
VarOf(e) == SubSeq(e, 1, strchr_eq(e) - 1)
ValOf(e) == SubSeq(e, strchr_eq(e) + 1, Len(e))
EntriesFor(env, v) == SelectSeq(env, LAMBDA e : VarOf(e) = v)
RulesFor(v) == SelectSeq(default_env_rules \o cfg.rules, LAMBDA r : r.var = v)
SetupDone == inside.steps = << "setup_environment" >>
StartEnv == IF cfg.pass_environ = 1 THEN inside.environ ELSE << >>

\* What the rules say about the variable v: without a rule the starting
\* environment's entry, otherwise what the last rule for v says.
Expected(v) ==
  LET rs == RulesFor(v)
      last == rs[Len(rs)]
  IN IF rs = << >> THEN EntriesFor(StartEnv, v)
     ELSE IF last.has_val /\ last.val # << >> THEN << v \o << "=" >> \o last.val >>
     ELSE IF last.has_val THEN << >>
     ELSE EntriesFor(inside.environ, v)

\* C31: the environment passed to the child is the starting environment (the
\* parent's with -e, empty without) changed by the rules in order: for every
\* variable the last rule that names it decides (VAR passes the parent's
\* entry if there is one, VAR=VAL sets it, VAR= removes it), a variable no
\* rule names keeps the starting environment's entry, and without -e an entry
\* of the parent is passed only if an inherit rule names its variable.
C31_EnvironmentFromRules ==
  SetupDone =>
    /\ \A v \in EnvVars : EntriesFor(inside.env, v) = Expected(v)
    /\ \A i \in DOMAIN inside.env : VarOf(inside.env[i]) \in EnvVars
    /\ cfg.pass_environ = 0 =>
         \A i \in DOMAIN inside.env :
           (\E j \in DOMAIN inside.environ : inside.environ[j] = inside.env[i]) =>
             \E k \in DOMAIN cfg.rules :
               ~cfg.rules[k].has_val /\ cfg.rules[k].var = VarOf(inside.env[i])

\* C31 witness: without -e, after a rule that sets a variable, a later rule
\* that inherits it and a rule that removes the built-in variable, the child
\* gets the parent's entry of the variable and not the parent's entry of the
\* variable with the longer name.
C31_Witness ==
  /\ SetupDone /\ cfg.pass_environ = 0 /\ Len(cfg.rules) = 3
  /\ cfg.rules[1] = [var |-> << OtherVar >>, val |-> << "1" >>, has_val |-> TRUE]
  /\ cfg.rules[2] = [var |-> << OtherVar >>, val |-> << >>, has_val |-> FALSE]
  /\ cfg.rules[3] = [var |-> << LIBC_FATAL_STDERR_ >>, val |-> << >>, has_val |-> TRUE]
  /\ inside.environ = << LongerVar \o << "=", "3" >>, << OtherVar, "=", "2" >> >>
  /\ inside.env = << << OtherVar, "=", "2" >> >>

(***************************************************************************)
(* Properties of the resource limits                                       *)
(***************************************************************************)
RlimSet(res) == {inside.rlim[i][2] : i \in {j \in DOMAIN inside.rlim : inside.rlim[j][1] = res}}

\* C32: a command that is executed has RLIMIT_NOFILE 64 and RLIMIT_MEMLOCK 0,
\* and RLIMIT_NPROC has been set if and only if max_processes > 0: without
\* -p the limit is 1, a last -p without a value sets no limit, and a limit
\* that is set is the number N given to the last -p.
C32_ProcessLimit ==
  Executed =>
    /\ RlimSet("RLIMIT_NOFILE") = {64}
    /\ RlimSet("RLIMIT_MEMLOCK") = {0}
    /\ (RlimSet("RLIMIT_NPROC") # {}) <=> (cfg.max_processes > 0)
    /\ ~Given("p") => RlimSet("RLIMIT_NPROC") = {1}
    /\ (args.tok.name \in {"p", "processes"} /\ args.tok.arg = << >>)
         => RlimSet("RLIMIT_NPROC") = {}
    /\ RlimSet("RLIMIT_NPROC") \subseteq {cfg.max_processes}

(***************************************************************************)
(* Properties of the killed line                                           *)
(***************************************************************************)
StatsKeys == {"time", "time-wall", "max-rss", "csw-voluntary", "csw-forced"}
KeysAt(K) == {i \in DOMAIN meta : meta[i].key \in K}

\* C33: at the end of a run with a meta-file, killed:1 is in the meta-file
\* exactly when the keeper sent SIGKILL to a child it had not reaped and
\* reaped it in box_exit(); a run whose child was reaped by the main loop
\* has no killed:1; and in a killed run the killed line and the time
\* statistics come after the status and message lines.
C33_KilledLine ==
  (Done /\ metafile) =>
    /\ Has("killed", 1) <=> (kills # {} /\ reaped_by = "box_exit")
    /\ reaped_by = "keeper" => ~HasKey("killed")
    /\ Has("killed", 1) =>
         \A i \in KeysAt({"status", "message"}) :
           \A j \in KeysAt(StatsKeys \cup {"killed"}) : i < j

(***************************************************************************)
(* Properties of the tokenizer's buffer                                    *)
(***************************************************************************)
\* C34: a token is accepted exactly when its length is at most maxsize and
\* rejected as too long otherwise, and the index get_token() writes at is
\* inside the buffer, toksize < bufsize when the terminating zero byte is
\* stored, for every value of maxsize.
C34_TokenWithinMaxsize ==
  jpc = "grow" =>
    /\ t1.ret \in {"none", "more", "token", "reject"}
    /\ t1.ret = "token" =>
         (~HashLess(t1.maxsize, t1.toksize) /\ HashLess(t1.toksize, t1.bufsize))
    /\ t1.ret = "more" =>
         (~HashLess(t1.maxsize, t1.toksize) /\ HashLess(t1.toksize, t1.bufsize))
    /\ t1.ret = "reject" => HashLess(t1.maxsize, t1.toksize)

(***************************************************************************)
(* Properties of get_nl and of ungetc in the tokenizer                     *)
(***************************************************************************)
\* What of the file has not been consumed, and its first byte that is not
\* skipped as whitespace: without report_lines a newline is skipped as well.
Unread(t) == SubSeq(t.data, Len(Consumed(t)) + 1, Len(t.data))
Skipped(t) == IF t.report_lines THEN {" ", "\t", "\r"} ELSE {" ", "\t", "\r", "\n"}
Ahead(t) == SelectSeq(Unread(t), LAMBDA c : c \notin Skipped(t))
GetNlRejects == jpc' = "done" /\ jrc' = 43 /\ jmsg' = "Expected end of line"
GetNlReturns == jpc' = "tokens" /\ jrc' = 0

\* C35 as stated: get_nl() returns only when the next token is the empty
\* line sentinel; when the next token is not empty or the input has ended it
\* rejects with exit code 43.
C35_Original ==
  [][TokenizerGetNl =>
       IF Ahead(t1) # << >> /\ Ahead(t1)[1] = "\n"
       THEN GetNlReturns ELSE GetNlRejects]_vars

\* C35: get_nl() rejects with exit code 43 exactly when a next token exists
\* and begins with a byte that is not zero; it returns when the next token
\* is the empty line sentinel, when the input has ended, and when the next
\* token begins with a zero byte.
C35_GetNl ==
  [][TokenizerGetNl =>
       IF Ahead(t1) # << >> /\ Ahead(t1)[1] \notin {"\n", NUL}
       THEN GetNlRejects ELSE GetNlReturns]_vars

\* C35 witness: get_nl() has returned at the end of an input that does not
\* end with a newline.
C35_Witness ==
  /\ jpc = "tokens" /\ jrc = 0 /\ t1.ret = "NULL" /\ t1.report_lines
  /\ t1.data = << "1", "\n", "2" >>

\* Where in the file the next token that is not a line sentinel begins and
\* ends, counted from what has been consumed: 0 when there is none.
NextStart(t) ==
  LET n == Len(Consumed(t))
      S == {i \in (n + 1)..Len(t.data) : ~is_white(t.data[i])}
  IN IF S = {} THEN 0 ELSE CHOOSE i \in S : \A k \in S : i <= k
NextEnd(t) ==
  LET b == NextStart(t)
      S == {j \in b..Len(t.data) : j = Len(t.data) \/ is_white(t.data[j + 1])}
  IN IF b = 0 THEN 0 ELSE CHOOSE j \in S : \A k \in S : j <= k

\* C36: for every input and every placement of refills, the assertion of
\* ungetc() holds in every call of get_token(), and after a token that
\* whitespace has ended the next byte read is that whitespace byte.
C36_UngetcAfterGetc ==
  jpc = "tokens" =>
    LET u == get_token(t1)
        e == NextEnd(t1)
    IN /\ u.ret # "abort"
       /\ (u.ret = "token" /\ u.toksize > 0 /\ e < Len(t1.data)) =>
            /\ u.src.pos >= 0 /\ u.src.pos < u.src.stop
            /\ is_white(t1.data[e + 1])
            /\ getc(u.src, u.data)[1] = t1.data[e + 1]
            /\ Len(Consumed(u)) = e

\* C36 witness: with one byte per read(), the space that ended "1" was read
\* right after a refill and given back, which leaves pos at buf.
C36_Witness ==
  /\ jpc = "tokens" /\ t1.src.rd = 1 /\ t1.data = << "1", " ", "2" >>
  /\ t1.ret = "token" /\ t1.token = << "1" >>
  /\ t1.src.pos = 0 /\ t1.src.stop = 1 /\ t1.src.off = 2

(***************************************************************************)
(* Properties of shuffler::read()                                          *)
(***************************************************************************)
\* C37: for every input (zero bytes included) and every option set, read()
\* never writes past the vector of num_tokens tokens or the vector of
\* num_lines + 1 lines, and at the end of the loop both assertions hold:
\* l->toks == t and num_lines == tb->num_lines.
C37_Materialization ==
  jpc = "loop" =>
    /\ ~s1.overrun
    /\ s1.t <= s1.toks_size /\ s1.l < s1.lines_size
    /\ tbuf.state = "done" =>
         (s1.ltoks = s1.t /\ s1.num_lines = tbuf.num_lines)

====
